---- MODULE Spec2Model ----
(***************************************************************************)
(* SkyDNS service registry (registry.DefaultRegistry), the Raft commands   *)
(* that mutate it and the leader-side lease controller (Server.run).       *)
(*                                                                         *)
(* Strings are sequences of one-character strings, so that ToLower,        *)
(* Replace, Split and the byte-wise string order are computed as the Go   *)
(* code computes them.  Time is counted in whole seconds.                  *)
(***************************************************************************)
EXTENDS Integers, Sequences, FiniteSets, Bags, TLC

VARIABLES
    reg,      \* reg[r]: the DefaultRegistry of replica r (tree, nodes, nsec, dnssec)
    now,      \* the wall clock, in seconds
    conv,     \* how the build converts a negative float64 to uint32
    log,      \* the Raft log: the committed commands, in order
    applied,  \* applied[r]: how many log entries replica r has applied
    role,     \* role[r]: raftServer.State() of replica r
    ctl,      \* ctl[r]: position of the lease controller of replica r inside a tick
    elections,\* how many times the leadership has changed
    calls,    \* calls[<<k, c>>]: invocations of callback c caused by log entry k
    net,      \* net[r]: successful Adds minus successful Removes on replica r
    lease,    \* lease[u]: the command that last set the lease of u on Self
    dirty,    \* dirty[r]: the ids whose stored TTL a read on r has rewritten
    secret,   \* the shared secret the server was started with, "" for none
    mutex,    \* the task that holds r.mutex of the registry of Self, "" for none
    task,     \* task[t]: the call of the registry that task t is in, and where
    last      \* the last operation, its arguments and what it returned

vars == <<reg, now, conv, log, applied, role, ctl, elections, calls, net,
          lease, dirty, secret, mutex, task, last>>

\* what the start of the server fixes
config == <<conv, secret>>

\* the tasks that call the registry concurrently
taskVars == <<mutex, task>>

----------------------------------------------------------------------------
(* Bounds of the model *)

MaxTime == 2
MaxLive == 2
MaxLen == 2
MaxLog == 2
MaxTerms == 2

----------------------------------------------------------------------------
(* Strings *)

Chars == {"*", "-", ".", "A", "a", "b", "e", "h", "l", "n", "q", "r", "v", "x", "y"}

\* the byte value of a character
Ord(c) ==
    CASE c = "*" -> 42 [] c = "-" -> 45 [] c = "." -> 46 [] c = "A" -> 65
      [] c = "a" -> 97 [] c = "b" -> 98 [] c = "e" -> 101 [] c = "h" -> 104
      [] c = "l" -> 108 [] c = "n" -> 110 [] c = "q" -> 113 [] c = "r" -> 114
      [] c = "v" -> 118 [] c = "x" -> 120 [] c = "y" -> 121

\* strings.ToLower
ToLowerChar(c) == IF c = "A" THEN "a" ELSE c

ToLower(s) == [i \in 1..Len(s) |-> ToLowerChar(s[i])]

\* strings.Replace(s, ".", "-", -1)
ReplaceDots(s) == [i \in 1..Len(s) |-> IF s[i] = "." THEN "-" ELSE s[i]]

Dot == <<".">>

Star == <<"*">>

\* strings.Split(s, "."): the pieces between the dots, at least one piece
RECURSIVE Split(_)
Split(s) ==
    IF \A i \in 1..Len(s) : s[i] # "."
    THEN <<s>>
    ELSE LET i == CHOOSE j \in 1..Len(s) :
                      s[j] = "." /\ \A m \in 1..(j - 1) : s[m] # "."
         IN  <<SubSeq(s, 1, i - 1)>> \o Split(SubSeq(s, i + 1, Len(s)))

\* strings.HasSuffix(domain, ".") followed by domain[:len(domain)-1]
TrimDot(s) ==
    IF Len(s) > 0 /\ s[Len(s)] = "." THEN SubSeq(s, 1, Len(s) - 1) ELSE s

\* dns.SplitDomainName: no labels for the empty name, else the labels
SplitDomainName(s) ==
    IF Len(s) = 0 \/ s = Dot THEN <<>> ELSE Split(TrimDot(s))

\* the < of Go strings: byte-wise lexicographic
RECURSIVE StrLess(_, _)
StrLess(a, b) ==
    IF Len(b) = 0 THEN FALSE
    ELSE IF Len(a) = 0 THEN TRUE
    ELSE IF Ord(a[1]) # Ord(b[1]) THEN Ord(a[1]) < Ord(b[1])
    ELSE StrLess(Tail(a), Tail(b))

----------------------------------------------------------------------------
(* Service records *)

ErrNone == "nil"

ErrExists == "ErrExists"

ErrNotExists == "ErrNotExists"

\* time.Time{}: earlier than every clock value
ZeroTime == -1000

NoCallbacks == {}

\* msg.Service{}
ZeroService ==
    [UUID |-> <<>>, Name |-> <<>>, Version |-> <<>>, Environment |-> <<>>,
     Region |-> <<>>, Host |-> <<>>, TTL |-> 0, Expires |-> ZeroTime,
     NoExpire |-> FALSE, Callback |-> NoCallbacks]

\* a key in the letter case of the attributes
getRegistryKeyAsIs(s) ==
    s.UUID \o Dot \o ReplaceDots(s.Host) \o Dot \o s.Region \o Dot
        \o ReplaceDots(s.Version) \o Dot \o s.Name \o Dot \o s.Environment

\* fmt.Sprintf("%s.%s.%s.%s.%s.%s", ...) lower-cased
getRegistryKey(s) ==
    ToLower(s.UUID \o Dot \o ReplaceDots(s.Host) \o Dot \o s.Region \o Dot
            \o ReplaceDots(s.Version) \o Dot \o s.Name \o Dot \o s.Environment)

\* A uint32 is held as the signed 32-bit integer that has the same bits:
\* 4294967295 is -1, 3661529852 is -633437444.  U32Less is the unsigned <.
U32Less(a, b) == IF (a >= 0) = (b >= 0) THEN a < b ELSE b < 0

\* the low 32 bits of the int64 that uint32(d.Seconds()) yields for
\* time.Time{}.Sub(now), which saturates at -9223372036 seconds
ZeroTimeBits == -633437444

\* uint32(x) of a float64 holding the whole number x: the result for a
\* negative x depends on the build (the low bits of the int64, or zero)
ToUint32(x) ==
    IF x >= 0 THEN x
    ELSE IF conv = "wrap" THEN x ELSE 0

\* Service.RemainingTTL at clock value t
Seconds(s, t) == IF s.Expires = ZeroTime THEN ZeroTimeBits ELSE s.Expires - t

RemainingTTL(s, t) ==
    IF U32Less(ToUint32(Seconds(s, t)), 1) THEN 0 ELSE ToUint32(Seconds(s, t))

\* getExpirationTime
getExpirationTime(ttl) == now + ttl

----------------------------------------------------------------------------
(* The name tree.  A tree is a function from paths to nodes; the path of a  *)
(* node is the sequence of labels from the root, the root is <<>>.  A node *)
(* made by the insert branch of node.add holds a service: it records the   *)
(* UUID, and the record itself is the one the id map points to.            *)

Root == <<>>

\* newNode()
newNode == [length |-> 0, leaf |-> FALSE, uuid |-> <<>>]

\* &node{value: s, ...}
leafNode(s) == [length |-> 0, leaf |-> TRUE, uuid |-> s.UUID]

EmptyTree == (Root :> newNode)

IsPrefix(p, q) == Len(p) <= Len(q) /\ SubSeq(q, 1, Len(p)) = p

\* n.leaves of the node at path p
Leaves(T, p) == {q \in DOMAIN T : Len(q) = Len(p) + 1 /\ IsPrefix(p, q)}

Front(tr) == SubSeq(tr, 1, Len(tr) - 1)

\* delete(n.leaves, k): the child and everything below it go
DeleteLeaf(T, q) == [x \in {y \in DOMAIN T : ~IsPrefix(q, y)} |-> T[x]]

SetLength(T, p, n) == [T EXCEPT ![p].length = n]

\* the end of node.add on the node at path p, r being what the child returned
addUp(r, p) ==
    IF r.err # ErrNone
    THEN r
    ELSE [err |-> ErrNone, tree |-> SetLength(r.tree, p, r.tree[p].length + 1)]

\* node.add, called on the node at path p
RECURSIVE nodeAdd(_, _, _, _)
nodeAdd(T, p, tr, s) ==
    IF Len(tr) = 1
    THEN IF Append(p, tr[1]) \in DOMAIN T
         THEN [err |-> ErrExists, tree |-> T]
         ELSE [err |-> ErrNone,
               tree |-> SetLength(T @@ (Append(p, tr[1]) :> leafNode(s)),
                                  p, T[p].length + 1)]
    ELSE IF Append(p, tr[Len(tr)]) \in DOMAIN T
         THEN addUp(nodeAdd(T, Append(p, tr[Len(tr)]), Front(tr), s), p)
         ELSE addUp(nodeAdd(T @@ (Append(p, tr[Len(tr)]) :> newNode),
                            Append(p, tr[Len(tr)]), Front(tr), s), p)

\* the cleanup of empty paths in node.remove: T is the tree after n.length--
cleanup(T, q) == IF T[q].length = 0 THEN DeleteLeaf(T, q) ELSE T

\* a node.remove that leaves n.length as it is
removeUpKeep(r, p, q) ==
    IF r.err # ErrNone
    THEN r
    ELSE [err |-> ErrNone, tree |-> cleanup(r.tree, q)]

\* the end of node.remove on the node at path p, r being what the child q returned
removeUp(r, p, q) ==
    IF r.err # ErrNone
    THEN r
    ELSE [err |-> ErrNone,
          tree |-> cleanup(SetLength(r.tree, p, r.tree[p].length - 1), q)]

\* node.remove, called on the node at path p
RECURSIVE nodeRemove(_, _, _)
nodeRemove(T, p, tr) ==
    IF Len(tr) = 1
    THEN IF Append(p, tr[1]) \notin DOMAIN T
         THEN [err |-> ErrNotExists, tree |-> T]
         ELSE [err |-> ErrNone,
               tree |-> SetLength(DeleteLeaf(T, Append(p, tr[1])), p, T[p].length - 1)]
    ELSE IF Append(p, tr[Len(tr)]) \notin DOMAIN T
         THEN [err |-> ErrNotExists, tree |-> T]
         ELSE removeUp(nodeRemove(T, Append(p, tr[Len(tr)]), Front(tr)),
                       p, Append(p, tr[Len(tr)]))

\* node.size
size(T, p) == T[p].length

\* the msg.Service held by the node at path q
nodeValue(T, N, q) == IF T[q].leaf THEN N[T[q].uuid] ELSE ZeroService

\* s.value.UpdateTTL() followed by the test TTL > 1 and the append
appendIf(v, ttl) ==
    IF U32Less(1, ttl) THEN SetToBag({[v EXCEPT !.TTL = ttl]}) ELSE EmptyBag

bottomGet(T, N, q, t) ==
    appendIf(nodeValue(T, N, q), RemainingTTL(nodeValue(T, N, q), t))

NotFound == [err |-> ErrNotExists, services |-> EmptyBag, touched |-> {}]

\* one turn of a loop of node.get: acc is the result so far (its err is nil
\* once success is set), r is what the child returned
loopGet(acc, r) ==
    IF r.err = ErrNone
    THEN [err |-> ErrNone, services |-> acc.services (+) r.services,
          touched |-> acc.touched \cup r.touched]
    ELSE [acc EXCEPT !.touched = @ \cup r.touched]

\* s.value.UpdateTTL() and the append of the bottom loop, for the leaf q
bottomOne(T, N, q, t) ==
    [err |-> ErrNone, services |-> bottomGet(T, N, q, t), touched |-> {q}]

\* for _, s := range n.leaves, over the leaves S still to visit
RECURSIVE bottomLoop(_, _, _, _, _)
bottomLoop(T, N, S, t, acc) ==
    IF S = {} THEN acc
    ELSE bottomLoop(T, N, S \ {CHOOSE q \in S : TRUE}, t,
                    loopGet(acc, bottomOne(T, N, CHOOSE q \in S : TRUE, t)))

\* node.get, called on the node at path p at clock value t: the error, the
\* services appended, and the nodes whose stored TTL UpdateTTL has rewritten
RECURSIVE nodeGet(_, _, _, _, _)
RECURSIVE starLoop(_, _, _, _, _, _)
\* for _, l := range n.leaves, over the leaves S still to visit
starLoop(T, N, S, tr, t, acc) ==
    IF S = {} THEN acc
    ELSE starLoop(T, N, S \ {CHOOSE q \in S : TRUE}, tr, t,
                  loopGet(acc, nodeGet(T, N, CHOOSE q \in S : TRUE, Front(tr), t)))

nodeGet(T, N, p, tr, t) ==
    IF Len(tr) = 1
    THEN IF tr[1] = Star
         THEN IF Leaves(T, p) = {}
              THEN NotFound
              ELSE bottomLoop(T, N, Leaves(T, p), t,
                              [err |-> ErrNone, services |-> EmptyBag, touched |-> {}])
         ELSE IF Append(p, tr[1]) \notin DOMAIN T
              THEN NotFound
              ELSE bottomOne(T, N, Append(p, tr[1]), t)
    ELSE IF tr[Len(tr)] = Star
         THEN IF Leaves(T, p) = {}
              THEN NotFound
              ELSE starLoop(T, N, Leaves(T, p), tr, t, NotFound)
         ELSE IF Append(p, tr[Len(tr)]) \notin DOMAIN T
              THEN NotFound
              ELSE nodeGet(T, N, Append(p, tr[Len(tr)]), Front(tr), t)

----------------------------------------------------------------------------
(* DefaultRegistry.  A registry is a record: tree, the name tree; nodes,   *)
(* the id map, which gives for a UUID the value of the node it points to;  *)
(* nsec, the sorted list of denial references; dnssec, the flag.           *)

\* registry.New()
New == [tree |-> EmptyTree, nodes |-> <<>>, nsec |-> <<>>, dnssec |-> FALSE]

\* sort.Search(n, f) over the indices lo+1..hi of a 1-based sequence: the
\* binary search of the Go library; returns the 0-based index
RECURSIVE Search(_, _, _, _)
Search(L, key, i, j) ==
    IF i < j
    THEN LET h == (i + j) \div 2
         IN  IF StrLess(L[h + 1].name, key)
             THEN Search(L, key, h + 1, j)
             ELSE Search(L, key, i, h)
    ELSE i

\* DefaultRegistry.addNSEC
addNSEC(L, key) ==
    LET i == Search(L, key, 0, Len(L))
    IN  IF i < Len(L) /\ L[i + 1].name = key
        THEN [L EXCEPT ![i + 1].reference = @ + 1]
        ELSE SubSeq(L, 1, i) \o <<[name |-> key, reference |-> 1]>>
                 \o SubSeq(L, i + 1, Len(L))

\* a removeNSEC that decrements and keeps the entry at reference zero
removeNSECKeep(L, key) ==
    LET i == Search(L, key, 0, Len(L))
    IN  IF i < Len(L) /\ L[i + 1].name = key
        THEN [L EXCEPT ![i + 1].reference = @ - 1]
        ELSE L

\* DefaultRegistry.removeNSEC
removeNSEC(L, key) ==
    LET i == Search(L, key, 0, Len(L))
    IN  IF i < Len(L) /\ L[i + 1].name = key
        THEN IF L[i + 1].reference - 1 = 0
             THEN SubSeq(L, 1, i) \o SubSeq(L, i + 2, Len(L))
             ELSE [L EXCEPT ![i + 1].reference = @ - 1]
        ELSE L

\* the four owner names of a service, in the order Add and removeService use
OwnerNames(s) ==
    << s.Region \o Dot \o s.Version \o Dot \o s.Name \o Dot \o s.Environment,
       s.Version \o Dot \o s.Name \o Dot \o s.Environment,
       s.Name \o Dot \o s.Environment,
       s.Environment >>

\* an Add that enters the first owner name only
addNSECsFirst(L, names) ==
    IF names = <<>> THEN L ELSE addNSEC(L, Head(names))

\* the calls of r.addNSEC in DefaultRegistry.Add, one per owner name
RECURSIVE addNSECs(_, _)
addNSECs(L, names) ==
    IF names = <<>> THEN L ELSE addNSECs(addNSEC(L, Head(names)), Tail(names))

\* the calls of r.removeNSEC in DefaultRegistry.removeService
RECURSIVE removeNSECs(_, _)
removeNSECs(L, names) ==
    IF names = <<>> THEN L
    ELSE removeNSECs(removeNSEC(L, Head(names)), Tail(names))

\* an Add that writes the id map and the denial index whatever r.tree.add
\* has returned
addDoneAlways(R, s, r) ==
    [err |-> r.err,
     reg |-> [R EXCEPT !.tree = r.tree,
                       !.nodes = (s.UUID :> s) @@ R.nodes,
                       !.nsec = IF R.dnssec
                                THEN addNSECs(R.nsec, OwnerNames(s))
                                ELSE R.nsec]]

\* DefaultRegistry.Add after the id map has been checked: r is what
\* r.tree.add returned
addDone(R, s, r) ==
    IF r.err = ErrNone
    THEN [err |-> ErrNone,
          reg |-> [R EXCEPT !.tree = r.tree,
                            !.nodes = (s.UUID :> s) @@ R.nodes,
                            !.nsec = IF R.dnssec
                                     THEN addNSECs(R.nsec, OwnerNames(s))
                                     ELSE R.nsec]]
    ELSE [err |-> r.err, reg |-> [R EXCEPT !.tree = r.tree]]

\* DefaultRegistry.Add
Add(R, s) ==
    IF s.UUID \in DOMAIN R.nodes
    THEN [err |-> ErrExists, reg |-> R]
    ELSE addDone(R, s, nodeAdd(R.tree, Root, Split(getRegistryKey(s)), s))

\* DefaultRegistry.removeService after the callbacks and the denial index:
\* r is what r.tree.remove returned
removeDone(R, s, r) ==
    [err |-> r.err,
     called |-> s.Callback,
     reg |-> [R EXCEPT !.nodes = [u \in DOMAIN R.nodes \ {s.UUID} |-> R.nodes[u]],
                       !.nsec = IF R.dnssec
                                THEN removeNSECs(R.nsec, OwnerNames(s))
                                ELSE R.nsec,
                       !.tree = r.tree]]

\* DefaultRegistry.removeService: called lists the callbacks it has invoked
removeService(R, s) ==
    removeDone(R, s, nodeRemove(R.tree, Root, Split(getRegistryKey(s))))

\* DefaultRegistry.RemoveUUID
RemoveUUID(R, uuid) ==
    IF uuid \in DOMAIN R.nodes
    THEN removeService(R, R.nodes[uuid])
    ELSE [err |-> ErrNotExists, called |-> {}, reg |-> R]

\* DefaultRegistry.Remove
Remove(R, s) ==
    IF s.UUID \in DOMAIN R.nodes
    THEN removeService(R, R.nodes[s.UUID])
    ELSE [err |-> ErrNotExists, called |-> {}, reg |-> R]

\* DefaultRegistry.UpdateTTL
UpdateTTL(R, uuid, ttl, expires) ==
    IF uuid \in DOMAIN R.nodes
    THEN [err |-> ErrNone,
          reg |-> [R EXCEPT !.nodes[uuid].TTL = ttl, !.nodes[uuid].Expires = expires]]
    ELSE [err |-> ErrNotExists, reg |-> R]

\* a GetUUID that serves a record as Get does, with more than a second left
getMappedAsGet(R, uuid, ttl) ==
    IF U32Less(1, ttl)
    THEN [err |-> ErrNone, s |-> [R.nodes[uuid] EXCEPT !.TTL = ttl],
          reg |-> [R EXCEPT !.nodes[uuid].TTL = ttl]]
    ELSE [err |-> ErrNotExists, s |-> ZeroService,
          reg |-> [R EXCEPT !.nodes[uuid].TTL = ttl]]

\* DefaultRegistry.GetUUID for a mapped uuid, ttl being s.value.RemainingTTL()
getMapped(R, uuid, ttl) ==
    IF ~U32Less(ttl, 1)
    THEN [err |-> ErrNone, s |-> [R.nodes[uuid] EXCEPT !.TTL = ttl],
          reg |-> [R EXCEPT !.nodes[uuid].TTL = ttl]]
    ELSE [err |-> ErrNotExists, s |-> ZeroService,
          reg |-> [R EXCEPT !.nodes[uuid].TTL = ttl]]

\* DefaultRegistry.GetUUID at clock value t
GetUUID(R, uuid, t) ==
    IF uuid \in DOMAIN R.nodes
    THEN getMapped(R, uuid, RemainingTTL(R.nodes[uuid], t))
    ELSE [err |-> ErrNotExists, s |-> ZeroService, reg |-> R]

\* the six-label padding of Get
Pad(tr) == IF Len(tr) < 6 THEN [i \in 1..(6 - Len(tr)) |-> Star] \o tr ELSE tr

\* the ids of the nodes at the paths S that hold a service
Holders(T, S) == {T[q].uuid : q \in {x \in S : T[x].leaf}}

\* a Get that stores TTL 0 in the nodes it has visited
getDoneZero(R, r, t) ==
    [err |-> r.err,
     services |-> r.services,
     reg |-> [R EXCEPT !.nodes =
                 [u \in DOMAIN R.nodes |->
                     IF u \in Holders(R.tree, r.touched)
                     THEN [R.nodes[u] EXCEPT !.TTL = 0]
                     ELSE R.nodes[u]]]]

\* DefaultRegistry.Get after r.tree.get has returned r: the stored TTL of
\* the nodes it has visited is now their remaining TTL
getDone(R, r, t) ==
    [err |-> r.err,
     services |-> r.services,
     reg |-> [R EXCEPT !.nodes =
                 [u \in DOMAIN R.nodes |->
                     IF u \in Holders(R.tree, r.touched)
                     THEN [R.nodes[u] EXCEPT !.TTL = RemainingTTL(R.nodes[u], t)]
                     ELSE R.nodes[u]]]]

\* DefaultRegistry.Get at clock value t
Get(R, domain, t) ==
    getDone(R, nodeGet(R.tree, R.nodes, Root,
                       Pad(SplitDomainName(TrimDot(ToLower(domain)))), t), t)

\* a scan that finds nothing
GetExpiredNone(R, t) == {}

\* a scan that does not look at NoExpire
GetExpiredAll(R, t) == {u \in DOMAIN R.nodes : t > R.nodes[u].Expires}

\* a scan that takes the instant of expiry for expired
GetExpiredAtOrAfter(R, t) ==
    {u \in DOMAIN R.nodes : ~R.nodes[u].NoExpire /\ t >= R.nodes[u].Expires}

\* DefaultRegistry.GetExpired at clock value t
GetExpired(R, t) ==
    {u \in DOMAIN R.nodes : ~R.nodes[u].NoExpire /\ t > R.nodes[u].Expires}

\* DefaultRegistry.AddCallback
AddCallback(R, s, c) ==
    IF s.UUID \in DOMAIN R.nodes
    THEN [err |-> ErrNone,
          reg |-> [R EXCEPT !.nodes[s.UUID].Callback = @ \cup {c}]]
    ELSE [err |-> ErrNotExists, reg |-> R]

\* DefaultRegistry.Len
RegLen(R) == size(R.tree, Root)

\* DefaultRegistry.GetNSEC on the denial index L: the names before and after
\* key; indexing L past its end panics
GetNSEC(L, key) ==
    LET i == Search(L, key, 0, Len(L))
    IN  IF Len(L) = 0
        THEN [panic |-> FALSE, prev |-> <<>>, next |-> <<>>]
        ELSE IF i < Len(L) /\ L[i + 1].name = key
        THEN IF i + 1 = Len(L)
             THEN [panic |-> FALSE, prev |-> L[i + 1].name \o Dot, next |-> <<>>]
             ELSE [panic |-> FALSE, prev |-> L[i + 1].name,
                   next |-> L[i + 2].name \o Dot]
        ELSE IF i = 0
        THEN [panic |-> FALSE, prev |-> <<>>, next |-> L[1].name \o Dot]
        ELSE IF i >= Len(L)
        THEN [panic |-> TRUE, prev |-> <<>>, next |-> <<>>]
        ELSE [panic |-> FALSE, prev |-> L[i].name \o Dot,
              next |-> L[i + 1].name \o Dot]

\* DefaultRegistry.DNSSEC
DNSSEC(R, b) == [old |-> R.dnssec, reg |-> [R EXCEPT !.dnssec = b]]

----------------------------------------------------------------------------
(* The inputs *)

Replicas == {"n1", "n2"}

\* the replica whose registry the direct calls of Spec use
Self == "n1"

Str(c) == <<c>>

\* a service as a request body gives it, before the command sets Expires
Svc(uuid, region, ttl, noExpire) ==
    [UUID |-> uuid, Name |-> Str("n"), Version |-> Str("v"),
     Environment |-> Str("e"), Region |-> region, Host |-> Str("h"),
     TTL |-> ttl, Expires |-> ZeroTime, NoExpire |-> noExpire,
     Callback |-> NoCallbacks]

IdA == Str("a")

IdUpperA == Str("A")

IdXA == <<"x", ".", "a">>

IdB == Str("b")

\* Spec: ids that differ in case only, an id with a dot in it, two regions
ServiceInputs ==
    {Svc(u, Str("r"), 2, FALSE) : u \in {IdA, IdUpperA, IdXA}}
        \cup {Svc(IdB, Str("q"), 2, FALSE)}

UUIDs == {s.UUID : s \in ServiceInputs}

\* SpecLease: leases of 0 and 2 seconds, and a permanent record
LeaseInputs ==
    {Svc(IdA, Str("r"), ttl, FALSE) : ttl \in {0, 2}}
        \cup {Svc(IdB, Str("q"), 2, TRUE)}

LeaseUUIDs == {IdA, IdB, IdUpperA}

UpdateTTLs == {3}

LeaseTTLs == {1, 3}

CallbackIds == {Str("y")}

\* "", "*", "r.v.n.e", "q.*.n.e", "A.h.r.v.n.e."
Queries ==
    { <<>>,
      <<"*">>,
      <<"r", ".", "v", ".", "n", ".", "e">>,
      <<"q", ".", "*", ".", "n", ".", "e">>,
      <<"A", ".", "h", ".", "r", ".", "v", ".", "n", ".", "e", ".">> }

\* "n.e", "r.v.n.e", "a.h.r.v.n.e"
LeaseQueries ==
    { <<"n", ".", "e">>,
      <<"r", ".", "v", ".", "n", ".", "e">>,
      <<"a", ".", "h", ".", "r", ".", "v", ".", "n", ".", "e">> }

----------------------------------------------------------------------------
(* The state after construction *)

NoOp == [op |-> "none", n |-> Self]

Idle == [pc |-> "idle", todo |-> {}]

\* the tasks of SpecTasks
Tasks == {"t1", "t2"}

\* a task that is in no call
Resting == [pc |-> "idle"]

\* no shared secret: the API is open
NoSecret == ""

Secrets == {NoSecret, "s"}

\* the state after construction, but for the secret
Start ==
    /\ reg = [r \in Replicas |-> New]
    /\ now = 0
    /\ conv \in {"wrap", "saturate"}
    /\ log = <<>>
    /\ applied = [r \in Replicas |-> 0]
    /\ role = [r \in Replicas |-> "follower"]
    /\ ctl = [r \in Replicas |-> Idle]
    /\ elections = 0
    /\ calls = <<>>
    /\ net = [r \in Replicas |-> 0]
    /\ lease = <<>>
    /\ dirty = [r \in Replicas |-> {}]
    /\ mutex = ""
    /\ task = [t \in Tasks |-> Resting]
    /\ last = NoOp

\* a server started without a secret
Init == Start /\ secret = NoSecret

\* a server started with or without a secret
InitAPI == Start /\ secret \in Secrets

Without(f, x) == [y \in DOMAIN f \ {x} |-> f[y]]

clusterVars == <<log, applied, role, ctl, elections, calls>>

----------------------------------------------------------------------------
(* What a call of the registry interface on replica n leaves behind: r is  *)
(* what the call returned, op names the caller.                            *)

\* a service with the Expires that NewAddServiceCommand computes
NewAddServiceCommand(s) == [s EXCEPT !.Expires = getExpirationTime(s.TTL)]

DidAdd(n, s, r) ==
    /\ reg' = [reg EXCEPT ![n] = r.reg]
    /\ net' = [net EXCEPT ![n] = IF r.err = ErrNone THEN @ + 1 ELSE @]
    /\ lease' = IF r.err = ErrNone /\ n = Self
                THEN (s.UUID :> [by |-> "Add", ttl |-> s.TTL, cb |-> FALSE]) @@ lease
                ELSE lease
    /\ dirty' = IF r.err = ErrNone THEN [dirty EXCEPT ![n] = @ \ {s.UUID}] ELSE dirty

DidRemove(n, uuid, r) ==
    /\ reg' = [reg EXCEPT ![n] = r.reg]
    /\ net' = [net EXCEPT ![n] = IF r.err = ErrNone THEN @ - 1 ELSE @]
    /\ lease' = IF n = Self THEN Without(lease, uuid) ELSE lease
    /\ dirty' = [dirty EXCEPT ![n] = @ \ {uuid}]

DidUpdateTTL(n, uuid, ttl, expires, r) ==
    /\ reg' = [reg EXCEPT ![n] = r.reg]
    /\ lease' = IF r.err = ErrNone /\ n = Self
                THEN [lease EXCEPT ![uuid].by = "UpdateTTL", ![uuid].ttl = ttl]
                ELSE lease
    /\ dirty' = [dirty EXCEPT ![n] = @ \ {uuid}]
    /\ UNCHANGED net

DidAddCallback(n, uuid, c, r) ==
    /\ reg' = [reg EXCEPT ![n] = r.reg]
    /\ lease' = IF r.err = ErrNone /\ n = Self
                THEN [lease EXCEPT ![uuid].cb = TRUE]
                ELSE lease
    /\ UNCHANGED <<net, dirty>>

\* the ids whose stored TTL differs after a read
Rewritten(R, R2) == {u \in DOMAIN R.nodes : R2.nodes[u].TTL # R.nodes[u].TTL}

\* a read of the registry of n has returned r
DidRead(n, r) ==
    /\ reg' = [reg EXCEPT ![n] = r.reg]
    /\ dirty' = [dirty EXCEPT ![n] = @ \cup Rewritten(reg[n], r.reg)]
    /\ UNCHANGED <<net, lease>>

----------------------------------------------------------------------------
(* Direct calls of the registry interface, on the registry of Self *)

\* reg.Add(s) has returned r
AddReturned(s, r) ==
    /\ DidAdd(Self, s, r)
    /\ last' = [op |-> "Add", n |-> Self, s |-> s, err |-> r.err]

\* reg.Add(s)
CallAdd(s) ==
    /\ Cardinality(DOMAIN reg[Self].nodes) < MaxLive
    /\ RegLen(reg[Self]) < MaxLen
    /\ AddReturned(s, Add(reg[Self], s))
    /\ UNCHANGED <<now, config, taskVars, clusterVars>>

\* reg.Remove(s) or reg.RemoveUUID(uuid) has returned r
RemoveReturned(op, uuid, r) ==
    /\ DidRemove(Self, uuid, r)
    /\ last' = [op |-> op, n |-> Self, uuid |-> uuid, err |-> r.err]

\* reg.RemoveUUID(uuid)
CallRemoveUUID(uuid) ==
    /\ RemoveReturned("RemoveUUID", uuid, RemoveUUID(reg[Self], uuid))
    /\ UNCHANGED <<now, config, taskVars, clusterVars>>

\* reg.Remove(s)
CallRemove(s) ==
    /\ RemoveReturned("Remove", s.UUID, Remove(reg[Self], s))
    /\ UNCHANGED <<now, config, taskVars, clusterVars>>

\* reg.UpdateTTL(uuid, ttl, expires) has returned r
UpdateTTLReturned(uuid, ttl, expires, r) ==
    /\ DidUpdateTTL(Self, uuid, ttl, expires, r)
    /\ last' = [op |-> "UpdateTTL", n |-> Self, uuid |-> uuid, ttl |-> ttl,
                expires |-> expires, err |-> r.err]

\* reg.UpdateTTL(uuid, ttl, expires)
CallUpdateTTL(uuid, ttl, expires) ==
    /\ UpdateTTLReturned(uuid, ttl, expires, UpdateTTL(reg[Self], uuid, ttl, expires))
    /\ UNCHANGED <<now, config, taskVars, clusterVars>>

\* reg.AddCallback(s, c) has returned r
AddCallbackReturned(uuid, c, r) ==
    /\ DidAddCallback(Self, uuid, c, r)
    /\ last' = [op |-> "AddCallback", n |-> Self, uuid |-> uuid, c |-> c, err |-> r.err]

\* reg.AddCallback(s, c)
CallAddCallback(s, c) ==
    /\ AddCallbackReturned(s.UUID, c, AddCallback(reg[Self], s, c))
    /\ UNCHANGED <<now, config, taskVars, clusterVars>>

\* reg.Get(domain) has returned r
GetReturned(domain, r) ==
    /\ DidRead(Self, r)
    /\ last' = [op |-> "Get", n |-> Self, domain |-> domain, err |-> r.err,
                services |-> r.services]

\* reg.Get(domain)
CallGet(domain) ==
    /\ GetReturned(domain, Get(reg[Self], domain, now))
    /\ UNCHANGED <<now, config, taskVars, clusterVars>>

\* reg.GetUUID(uuid) has returned r
GetUUIDReturned(uuid, r) ==
    /\ DidRead(Self, r)
    /\ last' = [op |-> "GetUUID", n |-> Self, uuid |-> uuid, err |-> r.err, s |-> r.s]

\* reg.GetUUID(uuid)
CallGetUUID(uuid) ==
    /\ GetUUIDReturned(uuid, GetUUID(reg[Self], uuid, now))
    /\ UNCHANGED <<now, config, taskVars, clusterVars>>

\* reg.GetExpired()
CallGetExpired ==
    /\ last' = [op |-> "GetExpired", n |-> Self, uuids |-> GetExpired(reg[Self], now)]
    /\ UNCHANGED <<reg, now, config, taskVars, net, lease, dirty, clusterVars>>

\* reg.DNSSEC(b)
CallDNSSEC(b) ==
    /\ DOMAIN reg[Self].nodes = {}
    /\ reg' = [reg EXCEPT ![Self] = DNSSEC(reg[Self], b).reg]
    /\ last' = [op |-> "DNSSEC", n |-> Self, b |-> b, old |-> DNSSEC(reg[Self], b).old]
    /\ UNCHANGED <<now, config, taskVars, net, lease, dirty, clusterVars>>

\* reg.Len()
CallLen ==
    /\ last' = [op |-> "Len", n |-> Self, len |-> RegLen(reg[Self])]
    /\ UNCHANGED <<reg, now, config, taskVars, net, lease, dirty, clusterVars>>

\* reg.GetNSEC(key)
CallGetNSEC(key) ==
    /\ last' = [op |-> "GetNSEC", n |-> Self, key |-> key,
                res |-> GetNSEC(reg[Self].nsec, key)]
    /\ UNCHANGED <<reg, now, config, taskVars, net, lease, dirty, clusterVars>>

\* one second passes
Tick ==
    /\ now < MaxTime
    /\ now' = now + 1
    /\ last' = [op |-> "Tick", n |-> Self]
    /\ UNCHANGED <<reg, config, taskVars, net, lease, dirty, clusterVars>>

\* Spec: every call of the interface at one instant, on services whose
\* names collide and nest
Next ==
    \/ \E s \in ServiceInputs : CallAdd(NewAddServiceCommand(s))
    \/ \E u \in UUIDs : CallRemoveUUID(u)
    \/ \E u \in UUIDs : CallRemove([ZeroService EXCEPT !.UUID = u])
    \/ \E u \in {IdA, IdXA}, t \in UpdateTTLs : CallUpdateTTL(u, t, getExpirationTime(t))
    \/ \E u \in {IdA, IdB}, c \in CallbackIds :
           CallAddCallback([ZeroService EXCEPT !.UUID = u], c)
    \/ \E q \in Queries : CallGet(q)
    \/ \E u \in UUIDs : CallGetUUID(u)
    \/ \E b \in BOOLEAN : CallDNSSEC(b)

Spec == Init /\ [][Next]_vars

\* SpecLease: the calls that read or write a lease, while the clock runs
NextLease ==
    \/ \E s \in LeaseInputs : CallAdd(NewAddServiceCommand(s))
    \/ \E u \in LeaseUUIDs : CallRemoveUUID(u)
    \/ \E u \in LeaseUUIDs, t \in LeaseTTLs : CallUpdateTTL(u, t, getExpirationTime(t))
    \/ \E c \in CallbackIds : CallAddCallback([ZeroService EXCEPT !.UUID = IdA], c)
    \/ \E q \in LeaseQueries : CallGet(q)
    \/ \E u \in LeaseUUIDs : CallGetUUID(u)
    \/ CallGetExpired
    \/ Tick

SpecLease == Init /\ [][NextLease]_vars

\* SpecRead: one lease of two seconds and a permanent record
ReadInputs == {Svc(IdA, Str("r"), 2, FALSE), Svc(IdB, Str("q"), 2, TRUE)}

\* "a", "e", "v.n.e", "y": before the index, its first name, its last name,
\* after the index
NSECKeys == {Str("a"), Str("e"), <<"v", ".", "n", ".", "e">>, Str("y")}

\* SpecRead: every operation of the Registry interface, with the clock and
\* the denial index
NextRead ==
    \/ \E b \in BOOLEAN : CallDNSSEC(b)
    \/ \E s \in ReadInputs : CallAdd(NewAddServiceCommand(s))
    \/ \E u \in {IdA, IdB} : CallRemoveUUID(u)
    \/ CallRemove([ZeroService EXCEPT !.UUID = IdA])
    \/ \E t \in UpdateTTLs : CallUpdateTTL(IdA, t, getExpirationTime(t))
    \/ \E c \in CallbackIds : CallAddCallback([ZeroService EXCEPT !.UUID = IdA], c)
    \/ \E q \in LeaseQueries : CallGet(q)
    \/ \E u \in {IdA, IdB} : CallGetUUID(u)
    \/ CallGetExpired
    \/ CallLen
    \/ \E k \in NSECKeys : CallGetNSEC(k)
    \/ Tick

SpecRead == Init /\ [][NextRead]_vars

\* every node of the tree that holds a service is the node its UUID maps to
RefsMapped ==
    \A r \in Replicas : \A q \in DOMAIN reg[r].tree :
        reg[r].tree[q].leaf => reg[r].tree[q].uuid \in DOMAIN reg[r].nodes

----------------------------------------------------------------------------
(* The replicated command bus and the lease controller.  log is the        *)
(* sequence of committed commands; applied[r] is the number of them that   *)
(* replica r has applied; the leader applies a command as it commits it.   *)

\* the service of the cluster: a lease of one second
ClusterService == Svc(IdA, Str("r"), 1, FALSE)

ClusterTTLs == {1}

\* the replica that the bus takes commands from
isLeader(r) == role[r] = "leader"

\* a tick that scans whatever the state of the replica
managesAlways(r) == TRUE

\* s.raftServer.State() == raft.Leader: "we are responsible for managing TTLs"
managesTTLs(r) == role[r] = "leader"

NewUpdateTTLCommand(uuid, ttl) ==
    [cmd |-> "update-ttl", UUID |-> uuid, TTL |-> ttl,
     Expires |-> getExpirationTime(ttl)]

NewRemoveServiceCommand(uuid) == [cmd |-> "remove-service", UUID |-> uuid]

NewAddCallbackCommand(s, c) == [cmd |-> "add-callback", Service |-> s, Callback |-> c]

\* an Apply that computes the expiration time itself, at clock value t
applyUpdateTTLNow(R, c, t) == UpdateTTL(R, c.UUID, c.TTL, t + c.TTL)

\* UpdateTTLCommand.Apply on registry R at clock value t
applyUpdateTTL(R, c, t) == UpdateTTL(R, c.UUID, c.TTL, c.Expires)

\* the callbacks of one destruction, counted: i is the index of the command
\* that destroyed the service, called the callbacks that the replica invoked
Called(i, called) ==
    [k \in DOMAIN calls \cup {<<i, c>> : c \in called} |->
        (IF k \in DOMAIN calls THEN calls[k] ELSE 0)
            + (IF k[1] = i /\ k[2] \in called THEN 1 ELSE 0)]

\* RemoveServiceCommand.Apply at index i on replica r has returned res
RemoveApplied(r, c, i, res) ==
    /\ DidRemove(r, c.UUID, res)
    /\ calls' = Called(i, res.called)

\* Command.Apply of the command c at index i of the log on replica r
Applied(r, c, i) ==
    /\ applied' = [applied EXCEPT ![r] = i]
    /\ CASE c.cmd = "add-service" ->
                /\ DidAdd(r, c.Service, Add(reg[r], c.Service))
                /\ UNCHANGED calls
         [] c.cmd = "update-ttl" ->
                /\ DidUpdateTTL(r, c.UUID, c.TTL, c.Expires,
                                applyUpdateTTL(reg[r], c, now))
                /\ UNCHANGED calls
         [] c.cmd = "remove-service" ->
                RemoveApplied(r, c, i, RemoveUUID(reg[r], c.UUID))
         [] c.cmd = "add-callback" ->
                /\ DidAddCallback(r, c.Service.UUID, c.Callback,
                                  AddCallback(reg[r], c.Service, c.Callback))
                /\ UNCHANGED calls

\* raftServer.Do(c) on replica r: NotLeaderError on a replica that does not
\* lead; the leader commits c and applies it
Do(r, c) ==
    IF isLeader(r)
    THEN /\ log' = Append(log, c)
         /\ Applied(r, c, Len(log) + 1)
    ELSE UNCHANGED <<log, applied, reg, calls, net, lease, dirty>>

\* a follower applies the next committed command
Apply(r) ==
    /\ applied[r] < Len(log)
    /\ Applied(r, log[applied[r] + 1], applied[r] + 1)
    /\ UNCHANGED <<log, now, config, taskVars, role, ctl, elections, last>>

\* PUT /skydns/services/{uuid}
addServiceHTTPHandler(r, s) ==
    /\ Len(log) < MaxLog
    /\ Do(r, [cmd |-> "add-service", Service |-> NewAddServiceCommand(s)])
    /\ last' = NoOp
    /\ UNCHANGED <<now, config, taskVars, role, ctl, elections>>

\* DELETE /skydns/services/{uuid}
removeServiceHTTPHandler(r, uuid) ==
    /\ Len(log) < MaxLog
    /\ Do(r, NewRemoveServiceCommand(uuid))
    /\ last' = NoOp
    /\ UNCHANGED <<now, config, taskVars, role, ctl, elections>>

\* PATCH /skydns/services/{uuid}
updateServiceHTTPHandler(r, uuid, ttl) ==
    /\ Len(log) < MaxLog
    /\ Do(r, NewUpdateTTLCommand(uuid, ttl))
    /\ last' = NoOp
    /\ UNCHANGED <<now, config, taskVars, role, ctl, elections>>

\* PUT /skydns/callbacks/{uuid}, for one service that the lookup has found
addCallbackHTTPHandler(r, s, c) ==
    /\ Len(log) < MaxLog
    /\ Do(r, NewAddCallbackCommand(s, c))
    /\ last' = NoOp
    /\ UNCHANGED <<now, config, taskVars, role, ctl, elections>>

\* GET /skydns/services/{uuid}: answered by the replica that is asked
getServiceHTTPHandler(r, uuid) ==
    /\ DidRead(r, GetUUID(reg[r], uuid, now))
    /\ last' = NoOp
    /\ UNCHANGED <<now, config, taskVars, clusterVars>>

\* case <-tick of Server.run, up to the loop over the expired ids
TickCheck(r) ==
    /\ ctl[r].pc = "idle"
    /\ ctl' = IF managesTTLs(r) /\ GetExpired(reg[r], now) # {}
              THEN [ctl EXCEPT ![r] = [pc |-> "submit", todo |-> GetExpired(reg[r], now)]]
              ELSE ctl
    /\ last' = [op |-> "tick", n |-> r]
    /\ UNCHANGED <<reg, now, config, taskVars, log, applied, role, elections, calls, net,
                   lease, dirty>>

\* one turn of the loop over the expired ids
TickSubmit(r) ==
    /\ ctl[r].pc = "submit"
    /\ \E uuid \in ctl[r].todo :
           /\ Do(r, NewRemoveServiceCommand(uuid))
           /\ last' = [op |-> "submit", n |-> r, uuid |-> uuid]
           /\ ctl' = [ctl EXCEPT ![r] =
                         IF ctl[r].todo = {uuid}
                         THEN Idle
                         ELSE [pc |-> "submit", todo |-> ctl[r].todo \ {uuid}]]
    /\ UNCHANGED <<now, config, taskVars, role, elections>>

\* a replica that has the whole log is elected while no replica leads
BecomeLeader(r) ==
    /\ elections < MaxTerms
    /\ \A q \in Replicas : ~isLeader(q)
    /\ applied[r] = Len(log)
    /\ role' = [role EXCEPT ![r] = "leader"]
    /\ elections' = elections + 1
    /\ last' = NoOp
    /\ UNCHANGED <<reg, now, config, taskVars, log, applied, ctl, calls, net, lease, dirty>>

\* the leader is demoted; another election can follow
StepDown(r) ==
    /\ isLeader(r)
    /\ elections < MaxTerms
    /\ role' = [role EXCEPT ![r] = "follower"]
    /\ last' = NoOp
    /\ UNCHANGED <<reg, now, config, taskVars, log, applied, ctl, elections, calls, net,
                   lease, dirty>>

NextCluster ==
    \/ \E r \in Replicas : addServiceHTTPHandler(r, ClusterService)
    \/ \E r \in Replicas : removeServiceHTTPHandler(r, IdA)
    \/ \E r \in Replicas, t \in ClusterTTLs : updateServiceHTTPHandler(r, IdA, t)
    \/ \E r \in Replicas, c \in CallbackIds :
           addCallbackHTTPHandler(r, [ZeroService EXCEPT !.UUID = IdA], c)
    \/ getServiceHTTPHandler(Self, IdA)
    \/ \E r \in Replicas : Apply(r)
    \/ \E r \in Replicas : TickCheck(r)
    \/ \E r \in Replicas : TickSubmit(r)
    \/ \E r \in Replicas : BecomeLeader(r)
    \/ \E r \in Replicas : StepDown(r)
    \/ Tick

SpecCluster == Init /\ [][NextCluster]_vars

\* the loop over the expired ids goes on: weak fairness of TickSubmit(r),
\* which can take a step exactly while the loop has an id left
SubmitFair(r) == []<>(ctl[r].pc # "submit") \/ []<><<TickSubmit(r)>>_vars

\* a replica keeps applying the log: weak fairness of Apply(r), which can
\* take a step exactly while a committed command is left to apply
ApplyFair(r) == []<>(applied[r] >= Len(log)) \/ []<><<Apply(r)>>_vars

\* the tick of every replica keeps firing, every replica keeps applying the
\* log, and a replica is elected when none leads
Fairness ==
    /\ \A r \in Replicas : WF_vars(TickCheck(r))
    /\ \A r \in Replicas : SubmitFair(r)
    /\ \A r \in Replicas : ApplyFair(r)
    /\ WF_vars(\E r \in Replicas : BecomeLeader(r))

\* the cluster with clients that announce and refresh a lease and no others
NextFair ==
    \/ \E r \in Replicas : addServiceHTTPHandler(r, ClusterService)
    \/ \E r \in Replicas, t \in ClusterTTLs : updateServiceHTTPHandler(r, IdA, t)
    \/ \E r \in Replicas : Apply(r)
    \/ \E r \in Replicas : TickCheck(r)
    \/ \E r \in Replicas : TickSubmit(r)
    \/ \E r \in Replicas : BecomeLeader(r)
    \/ \E r \in Replicas : StepDown(r)
    \/ Tick

SpecFair == Init /\ [][NextFair]_vars /\ Fairness

\* the leader has applied the whole log
LeaderApplied == \A r \in Replicas : isLeader(r) => applied[r] = Len(log)

----------------------------------------------------------------------------
(* The DNS front end: Server.ServeDNS for a question of type SRV or ANY,   *)
(* answered from the registry of the replica that is asked.  The answer    *)
(* is a bag of SRV records: the order of the records of one priority is    *)
(* the order in which node.get ranges over a Go map.                       *)

MaxServices == 3

\* s.domain
Domain == <<"l">>

AnyLabel == <<"a", "n", "y">>

AllLabel == <<"a", "l", "l">>

Success == "NOERROR"

ServerFailure == "SERVFAIL"

\* strings.TrimSuffix
TrimSuffix(s, suffix) ==
    IF Len(s) >= Len(suffix) /\ SubSeq(s, Len(s) - Len(suffix) + 1, Len(s)) = suffix
    THEN SubSeq(s, 1, Len(s) - Len(suffix))
    ELSE s

\* strings.Join(labels, ".")
RECURSIVE Join(_)
Join(labels) ==
    IF Len(labels) = 0 THEN <<>>
    ELSE IF Len(labels) = 1 THEN labels[1]
    ELSE labels[1] \o Dot \o Join(Tail(labels))

\* &dns.SRV{Hdr: dns.RR_Header{..., Ttl: serv.TTL}, Priority, Weight, Target}
SRV(serv, priority, weight) ==
    [Priority |-> priority, Weight |-> weight, Ttl |-> serv.TTL,
     Target |-> serv.Host \o Dot]

\* how many elements of the bag B are in the set S
RECURSIVE Copies(_, _)
Copies(B, S) ==
    IF S = {} THEN 0
    ELSE B[CHOOSE x \in S : TRUE] + Copies(B, S \ {CHOOSE x \in S : TRUE})

\* for _, serv := range services { m.Answer = append(m.Answer, &dns.SRV{...}) }
Records(B, priority, weight) ==
    [x \in {SRV(serv, priority, weight) : serv \in DOMAIN B} |->
        Copies(B, {serv \in DOMAIN B : SRV(serv, priority, weight) = x})]

\* a weight that is rounded up
WeightRoundedUp(n) == IF n > 0 THEN (100 + n - 1) \div n ELSE 0

\* uint16(math.Floor(float64(100 / n)))
Weight(n) == IF n > 0 THEN 100 \div n ELSE 0

\* the services that the loop of the second lookup does not skip
OtherRegions(B, region) ==
    [serv \in {x \in DOMAIN B : ToLower(x.Region) # region} |-> B[serv]]

\* ServeDNS after the second lookup has returned r; first is what the first
\* lookup returned
regionDone(first, region, r) ==
    IF r.err # ErrNone
    THEN [rcode |-> ServerFailure,
          answer |-> Records(first.services, 10, Weight(BagCardinality(first.services))),
          reg |-> r.reg]
    ELSE IF BagCardinality(r.services) <= BagCardinality(first.services)
    THEN [rcode |-> Success,
          answer |-> Records(first.services, 10, Weight(BagCardinality(first.services))),
          reg |-> r.reg]
    ELSE [rcode |-> Success,
          answer |-> Records(first.services, 10, Weight(BagCardinality(first.services)))
                     (+) Records(OtherRegions(r.services, region), 20,
                                 100 \div (BagCardinality(r.services)
                                           - BagCardinality(first.services))),
          reg |-> r.reg]

\* ServeDNS from labels := dns.SplitDomainName(key) on
otherRegions(labels, first, t) ==
    IF Len(labels) >= 4 /\ labels[Len(labels) - 3] \notin {AnyLabel, AllLabel}
    THEN regionDone(first, labels[Len(labels) - 3],
                    Get(first.reg, Join([labels EXCEPT ![Len(labels) - 3] = AnyLabel]), t))
    ELSE [rcode |-> Success,
          answer |-> Records(first.services, 10, Weight(BagCardinality(first.services))),
          reg |-> first.reg]

\* ServeDNS after s.registry.Get(key) has returned first
lookupDone(key, first, t) ==
    IF first.err # ErrNone
    THEN [rcode |-> ServerFailure, answer |-> EmptyBag, reg |-> first.reg]
    ELSE otherRegions(SplitDomainName(key), first, t)

\* the key of a question
QuestionKey(name) == TrimSuffix(name, Domain \o Dot)

\* Server.ServeDNS for the question name, of type SRV or ANY, at clock value t
ServeDNS(R, name, t) ==
    lookupDone(QuestionKey(name), Get(R, QuestionKey(name), t), t)

IdY == Str("y")

\* regions "r", "A" and "q"; a lease too short for Get; an id with a dot
DNSInputs ==
    { Svc(IdA, Str("r"), 3, FALSE),
      Svc(IdB, Str("A"), 3, FALSE),
      Svc(IdY, Str("q"), 3, FALSE),
      Svc(IdUpperA, Str("q"), 1, FALSE),
      Svc(IdXA, Str("r"), 3, FALSE) }

\* "any", "all.v.n.e", "*.*.*.*.*.*", "b.h.A.v.n.e", "b.h.a.v.n.e"
DNSQueries ==
    { AnyLabel,
      <<"a", "l", "l", ".", "v", ".", "n", ".", "e">>,
      <<"*", ".", "*", ".", "*", ".", "*", ".", "*", ".", "*">>,
      <<"b", ".", "h", ".", "A", ".", "v", ".", "n", ".", "e">>,
      <<"b", ".", "h", ".", "a", ".", "v", ".", "n", ".", "e">> }

\* "n.e.l.", "r.v.n.e.l.", "A.*.n.e.l.", "x.v.n.e.l.", "any.v.n.e.l."
Questions ==
    { <<"n", ".", "e", ".", "l", ".">>,
      <<"r", ".", "v", ".", "n", ".", "e", ".", "l", ".">>,
      <<"A", ".", "*", ".", "n", ".", "e", ".", "l", ".">>,
      <<"x", ".", "v", ".", "n", ".", "e", ".", "l", ".">>,
      <<"a", "n", "y", ".", "v", ".", "n", ".", "e", ".", "l", ".">> }

\* reg.Add(s), on a registry of fewer than MaxServices records and of a
\* Len() below MaxServices
Announce(s) ==
    /\ Cardinality(DOMAIN reg[Self].nodes) < MaxServices
    /\ RegLen(reg[Self]) < MaxServices
    /\ AddReturned(s, Add(reg[Self], s))
    /\ UNCHANGED <<now, config, taskVars, clusterVars>>

\* ServeDNS has written the reply r
Replied(name, r) ==
    /\ DidRead(Self, r)
    /\ last' = [op |-> "ServeDNS", n |-> Self, name |-> name, rcode |-> r.rcode,
                answer |-> r.answer]

\* a question of type SRV or ANY arrives
CallServeDNS(name) ==
    /\ Replied(name, ServeDNS(reg[Self], name, now))
    /\ UNCHANGED <<now, config, taskVars, clusterVars>>

\* SpecDNS: one replica announces, withdraws and answers, at one instant
NextDNS ==
    \/ \E s \in DNSInputs : Announce(NewAddServiceCommand(s))
    \/ \E s \in DNSInputs : CallRemoveUUID(s.UUID)
    \/ \E q \in DNSQueries : CallGet(q)
    \/ \E name \in Questions : CallServeDNS(name)

SpecDNS == Init /\ [][NextDNS]_vars

----------------------------------------------------------------------------
(* The HTTP handlers of the mutations, with the status they answer         *)

MaxRequests == 4

NotLeaderError == "NotLeaderError"

StatusOK == 200

StatusCreated == 201

StatusMovedPermanently == 301

StatusNotFound == 404

StatusConflict == 409

StatusInternalServerError == 500

\* the error that Command.Apply of c returns on the registry R
applyError(R, c) ==
    CASE c.cmd = "add-service" -> Add(R, c.Service).err
      [] c.cmd = "update-ttl" -> applyUpdateTTL(R, c, now).err
      [] c.cmd = "remove-service" -> RemoveUUID(R, c.UUID).err
      [] c.cmd = "add-callback" -> AddCallback(R, c.Service, c.Callback).err

\* the error that raftServer.Do(c) returns on replica r
doError(r, c) == IF isLeader(r) THEN applyError(reg[r], c) ELSE NotLeaderError

\* raftServer.Leader(): the name of the leader, "" while none is known
Leader ==
    IF \E q \in Replicas : isLeader(q)
    THEN CHOOSE q \in Replicas : isLeader(q)
    ELSE ""

\* a redirection that is written whether or not a leader is known
redirectAlways == StatusMovedPermanently

\* Server.redirectToLeader: the status it writes
redirectToLeader ==
    IF Leader # "" THEN StatusMovedPermanently ELSE StatusInternalServerError

\* the Location header of the response with the given status to a request
\* for path: "http://" + Leader() + req.URL.Path on a redirection, else none
Location(status, path) ==
    IF status = StatusMovedPermanently
    THEN <<"http://", Leader, path>>
    ELSE <<>>

\* the status that addServiceHTTPHandler writes when Do has returned err
addServiceStatus(err) ==
    IF err = ErrNone THEN StatusCreated
    ELSE IF err = ErrExists THEN StatusConflict
    ELSE IF err = NotLeaderError THEN redirectToLeader
    ELSE StatusInternalServerError

\* the status that removeServiceHTTPHandler and updateServiceHTTPHandler
\* write when Do has returned err
serviceStatus(err) ==
    IF err = ErrNone THEN StatusOK
    ELSE IF err = ErrNotExists THEN StatusNotFound
    ELSE IF err = NotLeaderError THEN redirectToLeader
    ELSE StatusInternalServerError

\* the handler of the request has called Do(r, c) and answered status
Answered(method, r, uuid, c, status) ==
    /\ Len(log) < MaxRequests
    /\ Do(r, c)
    /\ last' = [op |-> method, n |-> r, uuid |-> uuid, status |-> status,
                location |-> Location(status, <<"/skydns/services/", uuid>>)]
    /\ UNCHANGED <<now, config, taskVars, role, ctl, elections>>

\* PUT /skydns/services/{uuid}, answered
PutService(r, s) ==
    Answered("PUT", r, s.UUID,
             [cmd |-> "add-service", Service |-> NewAddServiceCommand(s)],
             addServiceStatus(doError(r, [cmd |-> "add-service",
                                          Service |-> NewAddServiceCommand(s)])))

\* DELETE /skydns/services/{uuid}, answered
DeleteService(r, uuid) ==
    Answered("DELETE", r, uuid, NewRemoveServiceCommand(uuid),
             serviceStatus(doError(r, NewRemoveServiceCommand(uuid))))

\* PATCH /skydns/services/{uuid}, answered
PatchService(r, uuid, ttl) ==
    Answered("PATCH", r, uuid, NewUpdateTTLCommand(uuid, ttl),
             serviceStatus(doError(r, NewUpdateTTLCommand(uuid, ttl))))

\* ids that differ in case only and an id with a dot
HTTPInputs == {Svc(u, Str("r"), 3, FALSE) : u \in {IdA, IdUpperA, IdXA}}

\* SpecHTTP: the requests that mutate, sent to any replica
NextHTTP ==
    \/ \E r \in Replicas : BecomeLeader(r)
    \/ \E r \in Replicas, s \in HTTPInputs : PutService(r, s)
    \/ \E r \in Replicas, u \in {IdA, IdXA, IdB} : DeleteService(r, u)
    \/ \E r \in Replicas, u \in {IdA, IdB} : PatchService(r, u, 3)

SpecHTTP == Init /\ [][NextHTTP]_vars

----------------------------------------------------------------------------
(* The HTTP API of package server: the handlers check the Authorization    *)
(* header against the shared secret first.  A request is answered in one   *)
(* step; one PUT of a callback submits one command per service found.      *)

MaxCalls == 2

StatusBadRequest == 400

StatusUnauthorized == 401

StatusForbidden == 403

\* the status of a request whose handler has panicked: the connection is
\* closed and no response is written
NoResponse == 0

\* Server.authenticate: an error unless no secret is set or the header is it
authenticate(header) ==
    IF secret # NoSecret /\ header # secret THEN "Unauthorized" ELSE ErrNone

\* a PUT that takes any body
hostAccepted(s) == ErrNone

\* the check of the body of PUT /skydns/services/{uuid}
hostError(s) == IF s.Host = <<>> THEN "Host required" ELSE ErrNone

\* a request as the handler reads it: the method, the replica it is sent to,
\* the uuid of the path, the Authorization header and the Host of the body
Request(method, r, uuid, header, host) ==
    [op |-> method, n |-> r, uuid |-> uuid, auth |-> header, host |-> host]

\* a request answered before any command is submitted or any state read
Refused(req, status) ==
    /\ last' = req @@ [status |-> status, location |-> <<>>]
    /\ UNCHANGED <<reg, now, config, taskVars, clusterVars, net, lease, dirty>>

\* a request on a service that has passed the checks: the handler has called
\* Do(r, c) and answered status
Submitted(req, c, status) ==
    /\ Len(log) < MaxCalls
    /\ Do(req.n, c)
    /\ last' = req @@ [status |-> status,
                       location |-> Location(status, <<"/skydns/services/", req.uuid>>)]
    /\ UNCHANGED <<now, config, taskVars, role, ctl, elections>>

\* PUT /skydns/services/{uuid} with the Authorization header given
PutServiceAs(r, s, header) ==
    IF authenticate(header) # ErrNone
    THEN Refused(Request("PUT", r, s.UUID, header, s.Host), StatusUnauthorized)
    ELSE IF hostError(s) # ErrNone
    THEN Refused(Request("PUT", r, s.UUID, header, s.Host), StatusBadRequest)
    ELSE Submitted(Request("PUT", r, s.UUID, header, s.Host),
                   [cmd |-> "add-service", Service |-> NewAddServiceCommand(s)],
                   addServiceStatus(doError(r, [cmd |-> "add-service",
                                                Service |-> NewAddServiceCommand(s)])))

\* DELETE /skydns/services/{uuid} with the Authorization header given
DeleteServiceAs(r, uuid, header) ==
    IF authenticate(header) # ErrNone
    THEN Refused(Request("DELETE", r, uuid, header, <<>>), StatusUnauthorized)
    ELSE Submitted(Request("DELETE", r, uuid, header, <<>>),
                   NewRemoveServiceCommand(uuid),
                   serviceStatus(doError(r, NewRemoveServiceCommand(uuid))))

\* PATCH /skydns/services/{uuid} with the Authorization header given
PatchServiceAs(r, uuid, ttl, header) ==
    IF authenticate(header) # ErrNone
    THEN Refused(Request("PATCH", r, uuid, header, <<>>), StatusUnauthorized)
    ELSE Submitted(Request("PATCH", r, uuid, header, <<>>),
                   NewUpdateTTLCommand(uuid, ttl),
                   serviceStatus(doError(r, NewUpdateTTLCommand(uuid, ttl))))

\* the key that addCallbackHTTPHandler looks the services up with
callbackKey(cb) ==
    cb.Name \o Dot \o cb.Version \o Dot \o cb.Environment \o Dot \o cb.Region
        \o Dot \o cb.Host

\* the orders in which range may yield the services of the bag B
Orders(B) ==
    {f \in [1..BagCardinality(B) -> BagToSet(B)] :
        \A x \in BagToSet(B) :
            Cardinality({i \in 1..BagCardinality(B) : f[i] = x}) = CopiesIn(x, B)}

\* the commands of the loop over the services found, for the callback c
RECURSIVE callbackCommands(_, _)
callbackCommands(servs, c) ==
    IF servs = <<>> THEN <<>>
    ELSE <<NewAddCallbackCommand(Head(servs), c)>> \o callbackCommands(Tail(servs), c)

\* AddCallbackCommand.Apply on the registry R
applyCallback(R, c) == AddCallback(R, c.Service, c.Callback)

\* the loop on the leader: every command is applied to R as it is committed;
\* failed tells whether some Do has returned ErrNotExists
RECURSIVE addCallbacks(_, _)
addCallbacks(R, cmds) ==
    IF cmds = <<>> THEN [reg |-> R, failed |-> FALSE]
    ELSE [reg |-> addCallbacks(applyCallback(R, Head(cmds)).reg, Tail(cmds)).reg,
          failed |-> \/ applyCallback(R, Head(cmds)).err # ErrNone
                     \/ addCallbacks(applyCallback(R, Head(cmds)).reg,
                                      Tail(cmds)).failed]

\* the ids that the commands cmds have attached a callback to on R
Attached(R, cmds) ==
    {cmds[i].Service.UUID : i \in 1..Len(cmds)} \cap DOMAIN R.nodes

\* what the handler of the callback leaves behind on replica r: R is the
\* registry after the lookup, cmds the commands that Do has committed
CallbackDone(r, cb, header, R, cmds, status) ==
    /\ reg' = [reg EXCEPT ![r] = addCallbacks(R, cmds).reg]
    /\ log' = log \o cmds
    /\ applied' = [applied EXCEPT ![r] = IF cmds = <<>> THEN @ ELSE Len(log) + Len(cmds)]
    /\ dirty' = [dirty EXCEPT ![r] = @ \cup Rewritten(reg[r], R)]
    /\ lease' = [u \in DOMAIN lease |->
                    IF r = Self /\ u \in Attached(R, cmds)
                    THEN [lease[u] EXCEPT !.cb = TRUE]
                    ELSE lease[u]]
    /\ last' = Request("PUT callback", r, cb.UUID, header, cb.Host)
                   @@ [cb |-> cb, status |-> status,
                       location |-> Location(status, <<"/skydns/callbacks/", cb.UUID>>)]
    /\ UNCHANGED <<now, config, taskVars, role, ctl, elections, calls, net>>

\* addCallbackHTTPHandler after the lookup has returned look
callbackLooked(r, cb, header, look) ==
    IF look.err = ErrNone /\ look.services = EmptyBag
    THEN \* err.Error() of a nil error
         CallbackDone(r, cb, header, look.reg, <<>>, NoResponse)
    ELSE IF look.err # ErrNone
    THEN \* 404 is written; the loop has nothing to range over
         CallbackDone(r, cb, header, look.reg, <<>>, StatusNotFound)
    ELSE IF ~isLeader(r)
    THEN \* the first Do returns NotLeaderError
         CallbackDone(r, cb, header, look.reg, <<>>, redirectToLeader)
    ELSE \E servs \in Orders(look.services) :
             CallbackDone(r, cb, header, look.reg,
                          callbackCommands(servs, cb.UUID),
                          IF addCallbacks(look.reg,
                                          callbackCommands(servs, cb.UUID)).failed
                          THEN StatusNotFound
                          ELSE StatusCreated)

\* PUT /skydns/callbacks/{uuid} with the Authorization header given
PutCallback(r, cb, header) ==
    IF authenticate(header) # ErrNone
    THEN Refused(Request("PUT callback", r, cb.UUID, header, cb.Host), StatusForbidden)
    ELSE /\ Len(log) < MaxCalls
         /\ callbackLooked(r, cb, header, Get(reg[r], callbackKey(cb), now))

\* a follower applies the next committed command, between two requests
Replicate(r) ==
    /\ applied[r] < Len(log)
    /\ Applied(r, log[applied[r] + 1], applied[r] + 1)
    /\ last' = [op |-> "Apply", n |-> r]
    /\ UNCHANGED <<log, now, config, taskVars, role, ctl, elections>>

\* the service s with the five attributes given
Attributes(s, name, version, environment, region, host) ==
    [s EXCEPT !.Name = name, !.Version = version, !.Environment = environment,
              !.Region = region, !.Host = host]

\* the service of the tests, a service whose five attributes are one string,
\* with a lease of one second or three, and a body without Host
APIServices ==
    {Svc(IdA, Str("r"), 3, FALSE), [Svc(IdA, Str("r"), 3, FALSE) EXCEPT !.Host = <<>>]}
        \cup {Attributes(Svc(IdB, Str("n"), ttl, FALSE),
                         Str("n"), Str("n"), Str("n"), Str("n"), Str("n")) :
                  ttl \in {1, 3}}

\* msg.Callback as the body of the request gives it, with the UUID of the path
Callback(name, version, environment, region, host) ==
    [UUID |-> Str("y"), Name |-> name, Version |-> version,
     Environment |-> environment, Region |-> region, Host |-> host]

\* callbacks: the attributes of the service of the tests, the same read
\* from host to name, and the attributes that are one string
APICallbacks ==
    {Callback(Str("n"), Str("v"), Str("e"), Str("r"), Str("h")),
     Callback(Str("h"), Str("r"), Str("v"), Str("n"), Str("e")),
     Callback(Str("n"), Str("n"), Str("n"), Str("n"), Str("n"))}

\* the Authorization header: absent, or the secret
Headers == {"", "s"}

NextAPI ==
    \/ \E r \in Replicas : BecomeLeader(r)
    \/ \E r \in Replicas : Replicate(r)
    \/ \E r \in Replicas, s \in APIServices, h \in Headers : PutServiceAs(r, s, h)
    \/ \E r \in Replicas, h \in Headers : DeleteServiceAs(r, IdA, h)
    \/ \E r \in Replicas, h \in Headers : PatchServiceAs(r, IdB, 3, h)
    \/ \E r \in Replicas, cb \in APICallbacks, h \in Headers : PutCallback(r, cb, h)

SpecAPI == InitAPI /\ [][NextAPI]_vars

----------------------------------------------------------------------------
(* Tasks that call the registry of Self concurrently.  A call that takes   *)
(* r.mutex waits for it, runs its body and releases it on return (defer);  *)
(* a call that does not take it runs its body at once.  The body of a call *)
(* spans from its first access of the registry to its return.              *)

\* the calls of the Registry interface that the tasks make: one of each
TaskCalls ==
    {[op |-> "Add", s |-> NewAddServiceCommand(Svc(IdA, Str("r"), 2, FALSE))],
     [op |-> "RemoveUUID", uuid |-> IdA]}
        \cup {[op |-> "Get", domain |-> <<"n", ".", "e">>],
              [op |-> "Remove", uuid |-> IdA],
              [op |-> "UpdateTTL", uuid |-> IdA, ttl |-> 3],
              [op |-> "GetUUID", uuid |-> IdA],
              [op |-> "GetExpired"],
              [op |-> "AddCallback", uuid |-> IdA, c |-> Str("y")],
              [op |-> "Len"],
              [op |-> "GetNSEC", key |-> Str("e")],
              [op |-> "DNSSEC", b |-> TRUE]}

\* the calls whose first statement is r.mutex.Lock()
Locks(op) == op \notin {"Len", "DNSSEC"}

\* task t calls the registry: it waits for the mutex, or, in a call that
\* does not lock, is in the body at once; DNSSEC reads the flag first
Enter(t, c) ==
    /\ task[t].pc = "idle"
    /\ c.op = "Add" =>
           /\ Cardinality(DOMAIN reg[Self].nodes) < MaxLive
           /\ RegLen(reg[Self]) < MaxLen
    /\ task' = [task EXCEPT ![t] = [pc |-> IF Locks(c.op) THEN "lock" ELSE "body",
                                      call |-> c, b1 |-> reg[Self].dnssec]]
    /\ UNCHANGED <<reg, now, config, clusterVars, net, lease, dirty, mutex, last>>

\* r.mutex.Lock() returns in task t
Acquire(t) ==
    /\ task[t].pc = "lock"
    /\ mutex = ""
    /\ mutex' = t
    /\ task' = [task EXCEPT ![t].pc = "body"]
    /\ UNCHANGED <<reg, now, config, clusterVars, net, lease, dirty, last>>

\* the body of the call c, b1 being the flag that DNSSEC has read
Returned(c, b1) ==
    CASE c.op = "Add" -> AddReturned(c.s, Add(reg[Self], c.s))
      [] c.op = "RemoveUUID" ->
             RemoveReturned("RemoveUUID", c.uuid, RemoveUUID(reg[Self], c.uuid))
      [] c.op = "Remove" ->
             RemoveReturned("Remove", c.uuid,
                            Remove(reg[Self], [ZeroService EXCEPT !.UUID = c.uuid]))
      [] c.op = "UpdateTTL" ->
             UpdateTTLReturned(c.uuid, c.ttl, getExpirationTime(c.ttl),
                               UpdateTTL(reg[Self], c.uuid, c.ttl,
                                         getExpirationTime(c.ttl)))
      [] c.op = "Get" -> GetReturned(c.domain, Get(reg[Self], c.domain, now))
      [] c.op = "GetUUID" -> GetUUIDReturned(c.uuid, GetUUID(reg[Self], c.uuid, now))
      [] c.op = "AddCallback" ->
             AddCallbackReturned(c.uuid, c.c,
                                 AddCallback(reg[Self],
                                             [ZeroService EXCEPT !.UUID = c.uuid], c.c))
      [] c.op = "GetExpired" ->
             /\ last' = [op |-> "GetExpired", n |-> Self,
                         uuids |-> GetExpired(reg[Self], now)]
             /\ UNCHANGED <<reg, net, lease, dirty>>
      [] c.op = "Len" ->
             /\ last' = [op |-> "Len", n |-> Self, len |-> RegLen(reg[Self])]
             /\ UNCHANGED <<reg, net, lease, dirty>>
      [] c.op = "GetNSEC" ->
             /\ last' = [op |-> "GetNSEC", n |-> Self, key |-> c.key,
                         res |-> GetNSEC(reg[Self].nsec, c.key)]
             /\ UNCHANGED <<reg, net, lease, dirty>>
      [] c.op = "DNSSEC" ->
             /\ reg' = [reg EXCEPT ![Self] = DNSSEC(reg[Self], c.b).reg]
             /\ last' = [op |-> "DNSSEC", n |-> Self, b |-> c.b, old |-> b1]
             /\ UNCHANGED <<net, lease, dirty>>

\* the call of task t returns, releasing the mutex if the call took it
Leave(t) ==
    /\ task[t].pc = "body"
    /\ Returned(task[t].call, task[t].b1)
    /\ mutex' = IF Locks(task[t].call.op) THEN "" ELSE mutex
    /\ task' = [task EXCEPT ![t] = Resting]
    /\ UNCHANGED <<now, config, clusterVars>>

NextTasks ==
    \/ \E t \in Tasks, c \in TaskCalls : Enter(t, c)
    \/ \E t \in Tasks : Acquire(t)
    \/ \E t \in Tasks : Leave(t)

SpecTasks == Init /\ [][NextTasks]_vars

----------------------------------------------------------------------------
(* Add, Remove and Len                                                     *)

Reverse(tr) == [i \in 1..Len(tr) |-> tr[Len(tr) + 1 - i]]

\* the path of the node that holds s: the labels of its key, last one first
KeyPath(s) == Reverse(Split(getRegistryKey(s)))

\* the reference count of a name in the denial index
Reference(L, name) ==
    IF \E i \in 1..Len(L) : L[i].name = name
    THEN L[CHOOSE i \in 1..Len(L) : L[i].name = name].reference
    ELSE 0

Occurrences(names, name) == Cardinality({i \in 1..Len(names) : names[i] = name})

IndexNames(L, names) ==
    {L[i].name : i \in 1..Len(L)} \cup {names[i] : i \in 1..Len(names)}

\* R2 is R with s inserted: one more node in the tree, holding s at the path
\* of its key; one more entry in the id map; with DNSSEC on, one more
\* reference to each owner name of s
Inserted(R, R2, s) ==
    /\ R2.nodes = (s.UUID :> s) @@ R.nodes
    /\ KeyPath(s) \notin DOMAIN R.tree
    /\ KeyPath(s) \in DOMAIN R2.tree
    /\ R2.tree[KeyPath(s)].leaf
    /\ R2.tree[KeyPath(s)].uuid = s.UUID
    /\ DOMAIN R.tree \subseteq DOMAIN R2.tree
    /\ \A q \in DOMAIN R2.tree \ DOMAIN R.tree : IsPrefix(q, KeyPath(s))
    /\ \A q \in DOMAIN R.tree :
           R2.tree[q].leaf = R.tree[q].leaf /\ R2.tree[q].uuid = R.tree[q].uuid
    /\ RegLen(R2) = RegLen(R) + 1
    /\ R2.dnssec = R.dnssec
    /\ IF R.dnssec
       THEN \A name \in IndexNames(R.nsec, OwnerNames(s)) :
                Reference(R2.nsec, name)
                    = Reference(R.nsec, name) + Occurrences(OwnerNames(s), name)
       ELSE R2.nsec = R.nsec

\* C1 as stated: Add(s) fails with ErrExists, changing nothing, when the id
\* of s is in the id map; for every s whose id is not in the map it succeeds
\* and inserts s into the tree, the id map and the denial index.
C1_AddByIdOnly ==
    [][last'.op = "Add" =>
         IF last'.s.UUID \in DOMAIN reg[last'.n].nodes
         THEN last'.err = ErrExists /\ reg'[last'.n] = reg[last'.n]
         ELSE last'.err = ErrNone
                  /\ Inserted(reg[last'.n], reg'[last'.n], last'.s)]_vars

\* C1 amended: Add(s) fails with ErrExists, changing nothing, when the id of
\* s is in the id map or the tree already has a node at the path of the key
\* of s; otherwise it succeeds and inserts s into the tree, the id map and,
\* with DNSSEC on, the denial index, in the one step.
C1_Add ==
    [][last'.op = "Add" =>
         IF \/ last'.s.UUID \in DOMAIN reg[last'.n].nodes
            \/ KeyPath(last'.s) \in DOMAIN reg[last'.n].tree
         THEN last'.err = ErrExists /\ reg'[last'.n] = reg[last'.n]
         ELSE last'.err = ErrNone
                  /\ Inserted(reg[last'.n], reg'[last'.n], last'.s)]_vars

\* an Add of an unmapped id has failed on the path of its key, DNSSEC on
C1_Witness ==
    /\ last.op = "Add"
    /\ last.err = ErrExists
    /\ last.s.UUID \notin DOMAIN reg[last.n].nodes
    /\ reg[last.n].dnssec
    /\ reg[last.n].nsec # <<>>

\* C4 as stated: Remove and RemoveUUID fail with ErrNotExists, changing
\* nothing, when the id is not in the id map; when it is they succeed, and
\* then the id is not in the map, no node is at the path of its key, Len is
\* one smaller and GetUUID of the id fails with ErrNotExists.
C4_Remove ==
    [][last'.op \in {"Remove", "RemoveUUID"} =>
         IF last'.uuid \notin DOMAIN reg[last'.n].nodes
         THEN last'.err = ErrNotExists /\ reg'[last'.n] = reg[last'.n]
         ELSE /\ last'.err = ErrNone
              /\ last'.uuid \notin DOMAIN reg'[last'.n].nodes
              /\ KeyPath(reg[last'.n].nodes[last'.uuid]) \notin DOMAIN reg'[last'.n].tree
              /\ RegLen(reg'[last'.n]) = RegLen(reg[last'.n]) - 1
              /\ GetUUID(reg'[last'.n], last'.uuid, now').err = ErrNotExists]_vars

\* C5: on every replica Len() is the number of Adds that have succeeded less
\* the number of Removes and RemoveUUIDs that have succeeded.
C5_Len == \A r \in Replicas : RegLen(reg[r]) = net[r]

\* a removal has succeeded and a service added before it is still counted
C5_Witness ==
    /\ last.op \in {"Remove", "RemoveUUID"}
    /\ last.err = ErrNone
    /\ net[last.n] >= 1

----------------------------------------------------------------------------
(* Get, UpdateTTL and the round trip                                       *)

\* the whole seconds that are left of the lease of s at clock value t
Left(s, t) == IF s.Expires > t THEN s.Expires - t ELSE 0

\* the labels of a query, padded to six
QueryLabels(domain) == Pad(SplitDomainName(TrimDot(ToLower(domain))))

\* equal label at every concrete position, any label at a wildcard
Matches(key, pat) ==
    /\ Len(key) = Len(pat)
    /\ \A i \in 1..Len(pat) : pat[i] = Star \/ pat[i] = key[i]

\* the ids of the stored services that a query asks for at clock value t
Matching(R, domain, t) ==
    {u \in DOMAIN R.nodes :
        /\ Matches(Split(getRegistryKey(R.nodes[u])), QueryLabels(domain))
        /\ Left(R.nodes[u], t) >= 2}

\* C2 as stated: a Get of at most six labels returns exactly the stored
\* services whose key matches the padded query and whose remaining TTL is at
\* least 2 seconds, each of them once, with its remaining TTL.
C2_Get ==
    (last.op = "Get" /\ Len(SplitDomainName(TrimDot(ToLower(last.domain)))) <= 6)
        => last.services =
               SetToBag({[reg[last.n].nodes[u] EXCEPT
                              !.TTL = Left(reg[last.n].nodes[u], now)] :
                         u \in Matching(reg[last.n], last.domain, now)})

\* C9 as stated: a successful UpdateTTL(id, t, e) sets ttl and expires of the
\* record of id and changes nothing else, a second application changes
\* nothing, and an unknown id fails with ErrNotExists and changes nothing; a
\* later GetUUID of the id returns the time that is left until e, at least 1
\* and at most t.
C9_UpdateTTL ==
    [][/\ last'.op = "UpdateTTL" =>
              IF last'.uuid \in DOMAIN reg[last'.n].nodes
              THEN /\ last'.err = ErrNone
                   /\ reg'[last'.n] =
                          [reg[last'.n] EXCEPT
                               !.nodes[last'.uuid].TTL = last'.ttl,
                               !.nodes[last'.uuid].Expires = last'.expires]
                   /\ UpdateTTL(reg'[last'.n], last'.uuid, last'.ttl,
                                last'.expires).reg = reg'[last'.n]
              ELSE last'.err = ErrNotExists /\ reg'[last'.n] = reg[last'.n]
       /\ (/\ last'.op = "GetUUID"
           /\ last'.n = Self
           /\ last'.err = ErrNone
           /\ last'.uuid \in DOMAIN lease
           /\ lease[last'.uuid].by = "UpdateTTL")
              => /\ last'.s.Expires = reg[Self].nodes[last'.uuid].Expires
                 /\ last'.s.TTL = Left(last'.s, now')
                 /\ 1 <= last'.s.TTL
                 /\ last'.s.TTL <= lease[last'.uuid].ttl]_vars

\* the service as it was added: the stored record with the TTL of its Add
Added(u) == [reg[Self].nodes[u] EXCEPT !.TTL = lease[u].ttl]

\* GetUUID(u) follows the Add of u with no other write of the record between
RoundTrip(u) ==
    /\ last'.op = "GetUUID"
    /\ last'.n = Self
    /\ last'.uuid = u
    /\ u \in DOMAIN reg[Self].nodes
    /\ u \in DOMAIN lease
    /\ lease[u].by = "Add"
    /\ ~lease[u].cb

----------------------------------------------------------------------------
(* The replicas                                                            *)

\* the lease of u on replica r has run out
Expired(r, u) ==
    /\ u \in DOMAIN reg[r].nodes
    /\ ~reg[r].nodes[u].NoExpire
    /\ now > reg[r].nodes[u].Expires

\* C3: a service that may expire and whose lease has run out on a replica is
\* in the end removed from that replica, unless its lease is refreshed; the
\* ticks keep firing, the replicas keep applying and a leader is elected
\* when there is none, also after a demotion between check and submit.
C3_Removed == \A r \in Replicas : Expired(r, IdA) ~> ~Expired(r, IdA)

\* the lease controller has removed the service from every replica, after an
\* election that followed a demotion
C3_Witness ==
    /\ last.op = "submit"
    /\ elections = MaxTerms
    /\ now > 1
    /\ \A r \in Replicas :
           applied[r] = Len(log) /\ last.uuid \notin DOMAIN reg[r].nodes
    /\ \E i \in 1..Len(log) :
           log[i].cmd = "add-service" /\ log[i].Service.UUID = last.uuid

SamePrefix(r1, r2) == applied[r1] = applied[r2]

SameIds(r1, r2) == DOMAIN reg[r1].nodes = DOMAIN reg[r2].nodes

\* C6 as stated: two replicas that have applied the same prefix of the log
\* hold the same ids and, for every id, the same ttl, expires and callbacks.
C6_SameRecords ==
    \A r1, r2 \in Replicas :
        SamePrefix(r1, r2) =>
            /\ SameIds(r1, r2)
            /\ \A u \in DOMAIN reg[r1].nodes :
                   /\ reg[r1].nodes[u].TTL = reg[r2].nodes[u].TTL
                   /\ reg[r1].nodes[u].Expires = reg[r2].nodes[u].Expires
                   /\ reg[r1].nodes[u].Callback = reg[r2].nodes[u].Callback

\* C6 amended: two replicas that have applied the same prefix of the log
\* hold the same ids and, for every id, the same expires and callbacks, and
\* the same ttl unless one of them has answered a read of the record since
\* the lease was written.
C6_SameLeases ==
    \A r1, r2 \in Replicas :
        SamePrefix(r1, r2) =>
            /\ SameIds(r1, r2)
            /\ \A u \in DOMAIN reg[r1].nodes :
                   /\ reg[r1].nodes[u].Expires = reg[r2].nodes[u].Expires
                   /\ reg[r1].nodes[u].Callback = reg[r2].nodes[u].Callback
                   /\ u \notin dirty[r1] \cup dirty[r2] =>
                          reg[r1].nodes[u] = reg[r2].nodes[u]

\* both replicas have applied an UpdateTTL and a later command, the clock
\* has moved since, and one of them has answered a read
C6_Witness ==
    /\ \A r \in Replicas : applied[r] = Len(log) /\ IdA \in DOMAIN reg[r].nodes
    /\ \E i \in 1..Len(log) : log[i].cmd = "update-ttl" /\ log[i].Expires < now + 1
    /\ dirty[Self] = {IdA}
    /\ \E r \in Replicas : reg[r].nodes[IdA].TTL # reg[Self].nodes[IdA].TTL

\* C7 as stated: every callback of a service that has been destroyed has
\* been invoked once, by all the replicas together.
C7_Once == \A k \in DOMAIN calls : calls[k] = 1

\* C8: a step of the tick of a replica that does not lead scans nothing and
\* commits nothing: it leaves the log and every registry as they are and
\* takes up no expired id.
C8_LeaderOnly ==
    [][\A r \in Replicas :
           (role[r] # "leader"
                /\ \/ ctl'[r] # ctl[r]
                   \/ last' # last /\ last'.op \in {"tick", "submit"} /\ last'.n = r)
               => /\ log' = log
                  /\ reg' = reg
                  /\ ctl'[r].todo \subseteq ctl[r].todo
                  /\ ctl[r].pc = "idle" => ctl'[r] = ctl[r]]_vars

\* the tick of a replica that does not lead has fired while a lease that it
\* holds had run out
C8_Witness ==
    /\ last.op = "tick"
    /\ role[last.n] # "leader"
    /\ ctl[last.n] = Idle
    /\ Expired(last.n, IdA)

----------------------------------------------------------------------------
(* GetExpired                                                              *)

AnnouncedZero(u) ==
    /\ u \in DOMAIN reg[Self].nodes
    /\ u \in DOMAIN lease
    /\ lease[u].by = "Add"
    /\ lease[u].ttl = 0
    /\ ~reg[Self].nodes[u].NoExpire

\* C12 as stated: a service announced with a TTL of 0 is in the result of
\* every GetExpired from the moment it is added, the call at the clock value
\* of its Expires included; a NoExpire service is in none.
C12_AtOnce ==
    last.op = "GetExpired" =>
        \A u \in DOMAIN reg[Self].nodes :
            /\ reg[Self].nodes[u].NoExpire => u \notin last.uuids
            /\ AnnouncedZero(u) => u \in last.uuids

\* C12 amended: a service announced with a TTL of 0 is in the result of a
\* GetExpired exactly when the clock has passed its Expires, which is the
\* clock value of its submission; a NoExpire service is in none.
C12_AfterExpires ==
    last.op = "GetExpired" =>
        \A u \in DOMAIN reg[Self].nodes :
            /\ reg[Self].nodes[u].NoExpire => u \notin last.uuids
            /\ AnnouncedZero(u) =>
                   (u \in last.uuids <=> now > reg[Self].nodes[u].Expires)

\* a scan after the clock value of the submission has returned the service
\* while a NoExpire record is stored
C12_Witness ==
    /\ last.op = "GetExpired"
    /\ \E u \in DOMAIN reg[Self].nodes :
           /\ AnnouncedZero(u)
           /\ u \in last.uuids
    /\ \E u \in DOMAIN reg[Self].nodes : reg[Self].nodes[u].NoExpire

----------------------------------------------------------------------------
(* The labels of a query                                                   *)

\* the query with "*" at every position where it has "any" or "all"
Starred(domain) ==
    Join([i \in 1..Len(Split(domain)) |->
             IF Split(domain)[i] \in {AnyLabel, AllLabel}
             THEN Star
             ELSE Split(domain)[i]])

\* C13 as stated: a Get of a query with the labels "any" or "all" at some
\* positions returns what the Get of the query with "*" at those positions
\* returns in the same state of the registry.
C13_Aliases ==
    [][last'.op = "Get" =>
           /\ last'.err = Get(reg[Self], Starred(last'.domain), now).err
           /\ last'.services = Get(reg[Self], Starred(last'.domain), now).services]_vars

\* the key of s as the caller wrote it, in lower case
LowerKey(s) ==
    ToLower(s.UUID \o Dot \o ReplaceDots(s.Host) \o Dot \o s.Region \o Dot
            \o ReplaceDots(s.Version) \o Dot \o s.Name \o Dot \o s.Environment)

\* C14: a Get returns what the Get of any query that differs from it in
\* letter case only returns in the same state, and the Get of the lower-case
\* key of a stored service with two or more seconds left returns that
\* service, whatever the letter case of the attributes it was added with.
C14_AnyCase ==
    [][last'.op = "Get" =>
           /\ \A q \in DNSQueries :
                  ToLower(q) = ToLower(last'.domain) =>
                      /\ last'.err = Get(reg[Self], q, now).err
                      /\ last'.services = Get(reg[Self], q, now).services
           /\ \A u \in DOMAIN reg[Self].nodes :
                  (/\ last'.domain = LowerKey(reg[Self].nodes[u])
                   /\ KeyPath(reg[Self].nodes[u]) \in DOMAIN reg[Self].tree
                   /\ Left(reg[Self].nodes[u], now) >= 2)
                      => /\ last'.err = ErrNone
                         /\ BagIn(reg[Self].nodes[u], last'.services)]_vars

\* a lower-case query has found a service added with an upper-case region
C14_Witness ==
    /\ last.op = "Get"
    /\ last.domain = ToLower(last.domain)
    /\ last.err = ErrNone
    /\ \E s \in DOMAIN last.services : s.Region # ToLower(s.Region)

\* the stored services whose lease has not run out at clock value t
Live(R, t) ==
    {u \in DOMAIN R.nodes : R.nodes[u].NoExpire \/ R.nodes[u].Expires >= t}

\* C15 as stated: Get("*.*.*.*.*.*") returns every stored service whose
\* lease has not run out, once, and nothing else.
C15_Everything ==
    (last.op = "Get" /\ last.domain = Join(<<Star, Star, Star, Star, Star, Star>>))
        => last.services =
               SetToBag({[reg[Self].nodes[u] EXCEPT
                              !.TTL = Left(reg[Self].nodes[u], now)] :
                         u \in Live(reg[Self], now)})

----------------------------------------------------------------------------
(* The answers of the DNS front end                                        *)

\* the records of priority p in the answer
OfPriority(answer, p) ==
    [x \in {y \in DOMAIN answer : y.Priority = p} |-> answer[x]]

\* the sum of the weights of the records of the bag B that are in S
RECURSIVE TotalWeight(_, _)
TotalWeight(B, S) ==
    IF S = {} THEN 0
    ELSE (CHOOSE x \in S : TRUE).Weight * B[CHOOSE x \in S : TRUE]
             + TotalWeight(B, S \ {CHOOSE x \in S : TRUE})

\* what the lookup of the key of the question returns before the request
Primary(name) == Get(reg[Self], QuestionKey(name), now)

\* the priority-10 records are one per service of S, each of weight w, and
\* their weights add up to a value from lo to 100
PrimaryRecords(answer, S, w, lo) ==
    /\ OfPriority(answer, 10) = Records(S, 10, w)
    /\ BagCardinality(OfPriority(answer, 10)) = BagCardinality(S)
    /\ TotalWeight(answer, DOMAIN OfPriority(answer, 10)) >= lo
    /\ TotalWeight(answer, DOMAIN OfPriority(answer, 10)) <= 100

\* C16 as stated: when the lookup returns n services, the answer has one
\* priority-10 record per service, each of weight floor(100/n), 0 for n = 0,
\* and the weights of these records add up to a value from 100 - n to 100.
C16_Weights ==
    [][(last'.op = "ServeDNS" /\ Primary(last'.name).err = ErrNone) =>
           PrimaryRecords(last'.answer, Primary(last'.name).services,
               IF BagCardinality(Primary(last'.name).services) = 0
               THEN 0
               ELSE 100 \div BagCardinality(Primary(last'.name).services),
               100 - BagCardinality(Primary(last'.name).services))]_vars

\* C16 amended: the same, the sum being from 100 - n to 100 when n >= 1; for
\* n = 0 the answer has no priority-10 record and the sum is 0.
C16_WeightsOfSome ==
    [][(last'.op = "ServeDNS" /\ Primary(last'.name).err = ErrNone) =>
           PrimaryRecords(last'.answer, Primary(last'.name).services,
               IF BagCardinality(Primary(last'.name).services) = 0
               THEN 0
               ELSE 100 \div BagCardinality(Primary(last'.name).services),
               IF BagCardinality(Primary(last'.name).services) = 0
               THEN 0
               ELSE 100 - BagCardinality(Primary(last'.name).services))]_vars

\* an answer of three priority-10 records of weight 33
C16_Witness ==
    /\ last.op = "ServeDNS"
    /\ BagCardinality(OfPriority(last.answer, 10)) = 3
    /\ \A x \in DOMAIN OfPriority(last.answer, 10) : x.Weight = 33

\* the labels of the key of a question
QuestionLabels(name) == SplitDomainName(QuestionKey(name))

\* the question has four labels or more and a region that is no wildcard
ConcreteRegion(name) ==
    /\ Len(QuestionLabels(name)) >= 4
    /\ QuestionLabels(name)[Len(QuestionLabels(name)) - 3]
           \notin {AnyLabel, AllLabel, Star}

RegionOf(name) == QuestionLabels(name)[Len(QuestionLabels(name)) - 3]

\* what the lookup of the key with a wildcard for its region returns, after
\* the first lookup
Wider(name) ==
    Get(Primary(name).reg,
        Join([QuestionLabels(name) EXCEPT ![Len(QuestionLabels(name)) - 3] = Star]),
        now)

\* the services of the bag B in a region other than region
Elsewhere(B, region) ==
    [serv \in {x \in DOMAIN B : ToLower(x.Region) # ToLower(region)} |-> B[serv]]

\* C17 as stated: for a question with a concrete region r, S the result for
\* the key and S' the result with a wildcard for the region, the answer has
\* after the priority-10 records one priority-20 record for each service of
\* S' whose region is not r, each of weight floor(100/(|S'| - |S|)), and none
\* when |S'| - |S| <= 0; the request completes.
C17_OtherRegions ==
    [][(/\ last'.op = "ServeDNS"
        /\ ConcreteRegion(last'.name)
        /\ Primary(last'.name).err = ErrNone
        /\ Wider(last'.name).err = ErrNone) =>
           /\ last'.rcode = Success
           /\ OfPriority(last'.answer, 20) =
                  IF BagCardinality(Wider(last'.name).services)
                         > BagCardinality(Primary(last'.name).services)
                  THEN Records(Elsewhere(Wider(last'.name).services,
                                         RegionOf(last'.name)), 20,
                               100 \div (BagCardinality(Wider(last'.name).services)
                                         - BagCardinality(Primary(last'.name).services)))
                  ELSE EmptyBag]_vars

\* what the lookup of the key with a wildcard for its region returns in the
\* state before the request
Rest(name) ==
    Get(reg[Self],
        Join([QuestionLabels(name) EXCEPT ![Len(QuestionLabels(name)) - 3] = Star]),
        now)

\* C18 as stated: for a question with a concrete region r, every service
\* that the rest of the question matches in another region and that has two
\* seconds or more left has a priority-20 record in the answer, also when no
\* service of region r matches.
C18_FailOver ==
    [][(last'.op = "ServeDNS" /\ ConcreteRegion(last'.name)) =>
           \A serv \in DOMAIN Elsewhere(Rest(last'.name).services, RegionOf(last'.name)) :
               \E x \in DOMAIN last'.answer :
                   /\ x.Priority = 20
                   /\ x.Target = serv.Host \o Dot
                   /\ x.Ttl = serv.TTL]_vars

\* C19 as stated: when the lookup returns ErrNotExists the answer is empty
\* and the reply is no server failure; a server failure is the reply to an
\* error other than ErrNotExists only.
C19_NotFound ==
    [][last'.op = "ServeDNS" =>
           /\ Primary(last'.name).err = ErrNotExists =>
                  /\ last'.answer = EmptyBag
                  /\ last'.rcode # ServerFailure
           /\ last'.rcode = ServerFailure =>
                  \/ Primary(last'.name).err \notin {ErrNone, ErrNotExists}
                  \/ /\ Primary(last'.name).err = ErrNone
                     /\ Wider(last'.name).err \notin {ErrNone, ErrNotExists}]_vars

----------------------------------------------------------------------------
(* The status of a mutation on the leader                                  *)

\* the registry of the replica that has answered, before and after
Before == reg[last'.n]

After == reg'[last'.n]

\* C20 as stated: on the leader, PUT of a new id answers 201 and the id is
\* then stored, Len() being one larger; PUT of a stored id answers 409 and
\* PATCH or DELETE of an unknown id answers 404, the registry being unchanged;
\* PATCH and DELETE of a stored id answer 200.
C20_Status ==
    [][(last'.op \in {"PUT", "PATCH", "DELETE"} /\ isLeader(last'.n)) =>
           IF last'.op = "PUT"
           THEN IF last'.uuid \notin DOMAIN Before.nodes
                THEN /\ last'.status = StatusCreated
                     /\ last'.uuid \in DOMAIN After.nodes
                     /\ RegLen(After) = RegLen(Before) + 1
                ELSE /\ last'.status = StatusConflict
                     /\ After = Before
           ELSE IF last'.uuid \notin DOMAIN Before.nodes
                THEN /\ last'.status = StatusNotFound
                     /\ After = Before
                ELSE last'.status = StatusOK]_vars

----------------------------------------------------------------------------
(* A mutation sent to a replica that does not lead                         *)

----------------------------------------------------------------------------
(* The id map, the depth of the services and the counts of the tree        *)

\* the paths of the nodes of T that hold the service with id u
LeavesOf(T, u) == {q \in DOMAIN T : T[q].leaf /\ T[q].uuid = u}

\* C26 as stated: every id of the id map has exactly one node holding a
\* service with that id in the name tree, at the six-label path of the
\* registry key of the stored record.
C26_OneLeaf ==
    \A r \in Replicas : \A u \in DOMAIN reg[r].nodes :
        /\ Cardinality(LeavesOf(reg[r].tree, u)) = 1
        /\ Len(KeyPath(reg[r].nodes[u])) = 6
        /\ LeavesOf(reg[r].tree, u) = {KeyPath(reg[r].nodes[u])}

\* C29 as stated: the registry key of every stored record splits on '.' into
\* exactly six labels, and every node that holds a service is at depth six.
C29_SixLabels ==
    \A r \in Replicas :
        /\ \A u \in DOMAIN reg[r].nodes :
               Len(Split(getRegistryKey(reg[r].nodes[u]))) = 6
        /\ \A q \in DOMAIN reg[r].tree : reg[r].tree[q].leaf => Len(q) = 6

\* the paths of the services strictly below the node at path p
Beneath(T, p) == {q \in DOMAIN T : T[q].leaf /\ IsPrefix(p, q) /\ q # p}

\* the ids of the services that T holds
Held(T) == {T[q].uuid : q \in {x \in DOMAIN T : T[x].leaf}}

\* the counts of T are right: the count of a node is the number of services
\* below it, only the root may be an inner node of count zero, and no node
\* that holds a service has children
Counted(T) ==
    \A p \in DOMAIN T :
        /\ T[p].length = Cardinality(Beneath(T, p))
        /\ (p # Root /\ ~T[p].leaf) => T[p].length > 0
        /\ T[p].leaf => Leaves(T, p) = {}

\* C30 as stated: after every operation the counts of the tree are right,
\* and a Remove or RemoveUUID takes no service out of the tree but the one
\* it was called for.
C30_Counts ==
    [][/\ Counted(reg'[Self].tree)
       /\ last'.op \in {"Remove", "RemoveUUID"} =>
              Held(reg[Self].tree) \ {last'.uuid} \subseteq Held(reg'[Self].tree)]_vars

----------------------------------------------------------------------------
(* What changes a stored record                                            *)

\* the records a and b differ in no field outside fields
SameBut(a, b, fields) == \A f \in DOMAIN a \ fields : a[f] = b[f]

\* the ids that are stored before and after the step and whose record differs
Changed == {u \in DOMAIN reg[Self].nodes \cap DOMAIN reg'[Self].nodes :
                reg'[Self].nodes[u] # reg[Self].nodes[u]}

\* C27 as stated: a stored record changes in a step of UpdateTTL (TTL and
\* Expires only) or of AddCallback (Callback only) and in no other step; Get,
\* GetUUID, GetExpired, Len and GetNSEC change no field of a stored record.
C27_WritersOnly ==
    [][\A u \in Changed :
           \/ /\ last'.op = "UpdateTTL"
              /\ SameBut(reg[Self].nodes[u], reg'[Self].nodes[u], {"TTL", "Expires"})
           \/ /\ last'.op = "AddCallback"
              /\ SameBut(reg[Self].nodes[u], reg'[Self].nodes[u], {"Callback"})]_vars

\* C27 amended: besides UpdateTTL and AddCallback, Get and GetUUID change a
\* stored record, in its TTL only, which becomes the remaining TTL; GetExpired,
\* Len and GetNSEC change nothing in the registry.
C27_WritersAndReads ==
    [][/\ \A u \in Changed :
              \/ /\ last'.op = "UpdateTTL"
                 /\ SameBut(reg[Self].nodes[u], reg'[Self].nodes[u], {"TTL", "Expires"})
              \/ /\ last'.op = "AddCallback"
                 /\ SameBut(reg[Self].nodes[u], reg'[Self].nodes[u], {"Callback"})
              \/ /\ last'.op \in {"Get", "GetUUID"}
                 /\ reg'[Self].nodes[u]
                        = [reg[Self].nodes[u] EXCEPT
                               !.TTL = RemainingTTL(reg[Self].nodes[u], now)]
       /\ last'.op \in {"GetExpired", "Len", "GetNSEC"} => reg' = reg]_vars

\* a Get has rewritten the stored TTL of a record that has a callback
C27_Witness ==
    /\ last.op = "Get"
    /\ IdA \in DOMAIN reg[Self].nodes
    /\ IdA \in dirty[Self]
    /\ reg[Self].nodes[IdA].TTL # lease[IdA].ttl
    /\ reg[Self].nodes[IdA].Callback # NoCallbacks

----------------------------------------------------------------------------
(* When Get finds nothing                                                  *)

\* the paths of the services of T that the query asks for
PathsMatching(T, domain) ==
    {q \in DOMAIN T : T[q].leaf /\ Matches(Reverse(q), QueryLabels(domain))}

\* C28 as stated: Get returns ErrNotExists exactly when the path of no
\* stored service matches the query; when paths match and the TTL filter
\* excludes every service on them, it returns no error and no service.
C28_NotFound ==
    last.op = "Get" =>
        /\ last.err = ErrNotExists <=> PathsMatching(reg[last.n].tree, last.domain) = {}
        /\ last.err = ErrNotExists => last.services = EmptyBag
        /\ (/\ PathsMatching(reg[last.n].tree, last.domain) # {}
            /\ \A q \in PathsMatching(reg[last.n].tree, last.domain) :
                   ~U32Less(1, reg[last.n].nodes[reg[last.n].tree[q].uuid].TTL))
               => last.err = ErrNone /\ last.services = EmptyBag

----------------------------------------------------------------------------
(* The mutex of the registry                                               *)

\* C25 as stated: a task that is in the body of a call of the registry
\* holds the mutex, and no two tasks are in the body of a call at once.
C25_Exclusive ==
    /\ \A t \in Tasks : task[t].pc = "body" => mutex = t
    /\ \A t, u \in Tasks : (t # u /\ task[t].pc = "body") => task[u].pc # "body"

\* the calls that do lock exclude one another
LockedExclusive ==
    \A t \in Tasks :
        (task[t].pc = "body" /\ Locks(task[t].call.op)) =>
            /\ mutex = t
            /\ \A u \in Tasks \ {t} :
                   task[u].pc = "body" => ~Locks(task[u].call.op)

----------------------------------------------------------------------------
(* The shared secret, the body of a PUT and the callbacks                  *)

Mutations == {"PUT", "PATCH", "DELETE", "PUT callback"}

\* C22 as stated: with a secret set, a PUT, PATCH or DELETE on a service or
\* a PUT on a callback whose Authorization header is not the secret is
\* answered 401, submits no command and leaves every registry as it is; with
\* the secret in the header, or with no secret set, the request is not
\* refused for its header.
C22_Secret ==
    [][last'.op \in Mutations =>
           IF secret # NoSecret /\ last'.auth # secret
           THEN /\ last'.status = StatusUnauthorized
                /\ log' = log
                /\ reg' = reg
           ELSE last'.status \notin {StatusUnauthorized, StatusForbidden}]_vars

SameAttributes(R, cb) ==
    {u \in DOMAIN R.nodes :
        /\ R.nodes[u].Name = cb.Name
        /\ R.nodes[u].Version = cb.Version
        /\ R.nodes[u].Environment = cb.Environment
        /\ R.nodes[u].Region = cb.Region
        /\ R.nodes[u].Host = cb.Host}

\* the ids of R and R2 whose callbacks differ
NewlyAttached(R, R2) ==
    {u \in DOMAIN R.nodes : R2.nodes[u].Callback # R.nodes[u].Callback}

\* C24 as stated: a PUT on a callback that the leader accepts attaches the
\* callback to every stored service that has the five attributes of the
\* callback, and to no other, and is answered 201 when there is one; when
\* there is none it is answered 404 and attaches nothing; the handler never
\* fails without a response.
C24_Callback ==
    [][(/\ last'.op = "PUT callback"
        /\ authenticate(last'.auth) = ErrNone
        /\ isLeader(last'.n))
           => /\ last'.status # NoResponse
              /\ NewlyAttached(Before, After) \subseteq SameAttributes(Before, last'.cb)
              /\ IF \E u \in SameAttributes(Before, last'.cb) :
                        Left(Before.nodes[u], now) >= 2
                 THEN /\ last'.status = StatusCreated
                      /\ \A u \in SameAttributes(Before, last'.cb) :
                             Left(Before.nodes[u], now) >= 2
                                 => last'.cb.UUID \in After.nodes[u].Callback
                 ELSE SameAttributes(Before, last'.cb) = {}
                          => /\ last'.status = StatusNotFound
                             /\ log' = log]_vars

(***************************************************************************)
(* The denial index by itself: r.addNSEC and r.removeNSEC in any order     *)
(***************************************************************************)

\* the most references one name of the index gets
MaxRef == 2

\* r.addNSEC(key)
CallAddNSEC(key) ==
    /\ Reference(reg[Self].nsec, key) < MaxRef
    /\ reg' = [reg EXCEPT ![Self].nsec = addNSEC(@, key)]
    /\ last' = [op |-> "addNSEC", n |-> Self, key |-> key,
                had |-> Reference(reg[Self].nsec, key)]
    /\ UNCHANGED <<now, config, taskVars, net, lease, dirty, clusterVars>>

\* r.removeNSEC(key)
CallRemoveNSEC(key) ==
    /\ reg' = [reg EXCEPT ![Self].nsec = removeNSEC(@, key)]
    /\ last' = [op |-> "removeNSEC", n |-> Self, key |-> key,
                had |-> Reference(reg[Self].nsec, key)]
    /\ UNCHANGED <<now, config, taskVars, net, lease, dirty, clusterVars>>

NextNSEC ==
    \/ \E key \in NSECKeys : CallAddNSEC(key)
    \/ \E key \in NSECKeys : CallRemoveNSEC(key)

SpecNSEC == Init /\ [][NextNSEC]_vars

\* the names of the index ascend strictly: sorted, and no name twice
StrictlySorted(L) == \A i \in 1..(Len(L) - 1) : StrLess(L[i].name, L[i + 1].name)

Present(L, name) == \E i \in 1..Len(L) : L[i].name = name

\* L2 holds the entries of L, but for the one of key
SameButName(L, L2, key) ==
    \A i \in 1..Len(L) :
        L[i].name # key =>
            Present(L2, L[i].name) /\ Reference(L2, L[i].name) = L[i].reference

\* C31: after any sequence of addNSEC and removeNSEC the index is strictly
\* sorted by owner name, no name is in it twice and every entry has a
\* reference count of at least 1; an add puts the name in or counts one
\* more; a remove of a name that is present counts one less and the entry
\* goes exactly when its count reaches zero; a remove of a name that is not
\* present changes nothing.
C31_Index ==
    [][last'.op \in {"addNSEC", "removeNSEC"} =>
         LET L == reg[last'.n].nsec
             L2 == reg'[last'.n].nsec
             key == last'.key
         IN  /\ StrictlySorted(L2)
             /\ \A i \in 1..Len(L2) : L2[i].reference >= 1
             /\ SameButName(L, L2, key) /\ SameButName(L2, L, key)
             /\ IF last'.op = "addNSEC"
                THEN Present(L2, key) /\ Reference(L2, key) = Reference(L, key) + 1
                ELSE IF ~Present(L, key)
                THEN L2 = L
                ELSE /\ Present(L2, key) <=> Reference(L, key) - 1 # 0
                     /\ Present(L2, key) => Reference(L2, key) = Reference(L, key) - 1]_vars

\* the last reference of a name was removed from between two other names
C31_Witness ==
    /\ last.op = "removeNSEC"
    /\ last.had = 1
    /\ ~Present(reg[Self].nsec, last.key)
    /\ Len(reg[Self].nsec) >= 2
    /\ StrLess(reg[Self].nsec[1].name, last.key)
    /\ StrLess(last.key, reg[Self].nsec[Len(reg[Self].nsec)].name)
    /\ \E i \in 1..Len(reg[Self].nsec) : reg[Self].nsec[i].reference = MaxRef

(***************************************************************************)
(* The denial index and the services: Add, Remove, RemoveUUID and DNSSEC   *)
(* in any order                                                            *)
(***************************************************************************)

\* reg.DNSSEC(b), at any time
SetDNSSEC(b) ==
    /\ reg' = [reg EXCEPT ![Self] = DNSSEC(reg[Self], b).reg]
    /\ last' = [op |-> "DNSSEC", n |-> Self, b |-> b, old |-> DNSSEC(reg[Self], b).old]
    /\ UNCHANGED <<now, config, taskVars, net, lease, dirty, clusterVars>>

\* services that share all four owner names, or only the environment; one
\* id has a dot in it
DenialInputs ==
    { Svc(IdA, Str("r"), 2, FALSE),
      Svc(IdXA, Str("r"), 2, FALSE),
      [Svc(IdB, Str("q"), 2, FALSE) EXCEPT !.Name = Str("l")] }

\* reg.Add(s), while no name of the index has MaxRef references
AddCounted(s) ==
    /\ \A i \in 1..Len(reg[Self].nsec) : reg[Self].nsec[i].reference < MaxRef
    /\ CallAdd(s)

NextDNSSEC ==
    \/ \E b \in BOOLEAN : SetDNSSEC(b)
    \/ \E s \in DenialInputs : AddCounted(NewAddServiceCommand(s))
    \/ \E s \in DenialInputs : CallRemoveUUID(s.UUID)
    \/ \E s \in DenialInputs : CallRemove([ZeroService EXCEPT !.UUID = s.UUID])

SpecDNSSEC == Init /\ [][NextDNSSEC]_vars

\* the references the services of the ids U give to a name
RECURSIVE Contributed(_, _, _)
Contributed(R, U, name) ==
    IF U = {} THEN 0
    ELSE LET u == CHOOSE v \in U : TRUE
         IN  Occurrences(OwnerNames(R.nodes[u]), name)
                 + Contributed(R, U \ {u}, name)

\* the owner names of the services in the id map
LiveNames(R) ==
    UNION {{OwnerNames(R.nodes[u])[i] : i \in 1..4} : u \in DOMAIN R.nodes}

\* the index holds the owner names of the services in the id map and no
\* other name, each counted once per service that has it
Exact(R) ==
    /\ {R.nsec[i].name : i \in 1..Len(R.nsec)} = LiveNames(R)
    /\ \A i \in 1..Len(R.nsec) :
           R.nsec[i].reference = Contributed(R, DOMAIN R.nodes, R.nsec[i].name)

\* C32 as stated: after any sequence of Add, Remove, RemoveUUID and DNSSEC
\* the index is exact whenever DNSSEC is enabled, and Add and Remove leave
\* the index alone while it is disabled.
C32_Exact ==
    [][/\ reg'[Self].dnssec => Exact(reg'[Self])
       /\ (~reg[Self].dnssec /\ last'.op \in {"Add", "Remove", "RemoveUUID"})
              => reg'[Self].nsec = reg[Self].nsec]_vars

\* C32: a new registry has an exact index; with DNSSEC enabled Add, Remove
\* and RemoveUUID keep an exact index exact; with DNSSEC disabled they leave
\* the index alone; DNSSEC(b) changes the flag only and populates nothing:
\* the index is exact while DNSSEC has been enabled since the registry was
\* made.
C32_Maintained ==
    [][/\ Exact(New)
       /\ last'.op \in {"Add", "Remove", "RemoveUUID"} =>
              IF reg[Self].dnssec
              THEN Exact(reg[Self]) => Exact(reg'[Self])
              ELSE reg'[Self].nsec = reg[Self].nsec
       /\ last'.op = "DNSSEC" =>
              reg'[Self] = [reg[Self] EXCEPT !.dnssec = last'.b]]_vars

\* one of two services that share owner names was removed with DNSSEC
\* enabled, and the index is exact
C32_Witness ==
    /\ last.op \in {"Remove", "RemoveUUID"}
    /\ last.err = ErrNone
    /\ reg[Self].dnssec
    /\ Cardinality(DOMAIN reg[Self].nodes) = 1
    /\ Len(reg[Self].nsec) = 4
    /\ Exact(reg[Self])

(***************************************************************************)
(* GetNSEC: the neighbours of a key in the denial index                    *)
(***************************************************************************)

\* C33: GetNSEC(key) returns ("", "") for an empty index; on an exact hit
\* at position i the name at i and the name at i + 1 with a dot, or the
\* name at i and "" when i is the last position; "" and the first name with
\* a dot when the key sorts before the first name; otherwise the names at
\* i - 1 and i with a dot each, i being the insertion point.
C33_Neighbors ==
    last.op = "GetNSEC" =>
        LET L == reg[last.n].nsec
            i == Search(L, last.key, 0, Len(L))
            res == last.res
        IN  /\ ~res.panic
            /\ IF Len(L) = 0
               THEN res.prev = <<>> /\ res.next = <<>>
               ELSE IF i < Len(L) /\ L[i + 1].name = last.key
               THEN /\ res.prev = L[i + 1].name
                    /\ res.next = IF i + 1 = Len(L) THEN <<>>
                                  ELSE L[i + 2].name \o Dot
               ELSE IF i = 0
               THEN res.prev = <<>> /\ res.next = L[1].name \o Dot
               ELSE /\ res.prev = L[i].name \o Dot
                    /\ i < Len(L) => res.next = L[i + 1].name \o Dot

(***************************************************************************)
(* Leases that have run out                                                *)
(***************************************************************************)

\* C34: the remaining TTL of a stored record is the whole seconds from now
\* to its expires when expires is later than now, and 0 otherwise: 0 for
\* every record whose expires is in the past, never a wrapped-around value.
C34_NoWrap ==
    \A u \in DOMAIN reg[Self].nodes :
        RemainingTTL(reg[Self].nodes[u], now) = Left(reg[Self].nodes[u], now)

\* C35: a service whose expires is in the past is never served: Get leaves
\* it out and GetUUID answers ErrNotExists for it, as GetUUID does for every
\* record with less than one second left.
C35_NotServed ==
    /\ last.op = "Get" =>
           \A s \in BagToSet(last.services) : ~(s.Expires < now)
    /\ (/\ last.op = "GetUUID"
        /\ last.uuid \in DOMAIN reg[last.n].nodes
        /\ Left(reg[last.n].nodes[last.uuid], now) < 1)
           => last.err = ErrNotExists

(***************************************************************************)
(* The lease controller and the commands of the clients                    *)
(***************************************************************************)

\* C36: a RemoveService command that the lease controller issues removes
\* only a record whose lease has run out at the moment the command is
\* applied: whatever UpdateTTL, RemoveService and AddService commands were
\* committed for the id since the scan, a record whose expires is in the
\* future when the command of the controller is applied is not removed.
C36_OnlyExpired ==
    [][\A r \in Replicas :
           (/\ last'.op = "submit"
            /\ last'.n = r
            /\ ctl'[r] # ctl[r]
            /\ last'.uuid \in DOMAIN reg[r].nodes
            /\ last'.uuid \notin DOMAIN reg'[r].nodes)
               => Expired(r, last'.uuid)]_vars

(***************************************************************************)
(* ServeDNS beside the commands: the handler takes the mutex of the        *)
(* registry once per s.registry.Get, so a command can be applied between   *)
(* its two lookups                                                         *)
(***************************************************************************)

\* regions "r" and "any": the second lookup of ServeDNS asks for the label
\* "any"; every service has a host of its own
ServeInputs ==
    { Svc(IdA, Str("r"), 3, FALSE),
      [Svc(IdB, AnyLabel, 3, FALSE) EXCEPT !.Host = Str("b")],
      [Svc(IdY, AnyLabel, 3, FALSE) EXCEPT !.Host = Str("y")] }

\* "r.v.n.e.l.", "Any.v.n.e.l." and "n.e.l."
ServeQuestions ==
    { <<"r", ".", "v", ".", "n", ".", "e", ".", "l", ".">>,
      <<"A", "n", "y", ".", "v", ".", "n", ".", "e", ".", "l", ".">>,
      <<"n", ".", "e", ".", "l", ".">> }

\* the question has a region label that ServeDNS replaces for a second lookup
LooksTwice(name) ==
    LET labels == SplitDomainName(QuestionKey(name))
    IN  Len(labels) >= 4 /\ labels[Len(labels) - 3] \notin {AnyLabel, AllLabel}

\* ServeDNS up to the return of s.registry.Get(key): the handler replies, or
\* goes on to the second lookup with the services of the first
ServeFirst(t, name, first) ==
    /\ task[t].pc = "idle"
    /\ DidRead(Self, first)
    /\ IF first.err = ErrNone /\ LooksTwice(name)
       THEN /\ task' = [task EXCEPT ![t] =
                           [pc |-> "second", name |-> name,
                            services |-> first.services,
                            held |-> DOMAIN reg[Self].nodes]]
            /\ last' = [op |-> "Get", n |-> Self, domain |-> QuestionKey(name),
                        err |-> first.err, services |-> first.services]
       ELSE /\ task' = task
            /\ last' = [op |-> "ServeDNS", n |-> Self, name |-> name,
                        rcode |-> lookupDone(QuestionKey(name), first, now).rcode,
                        answer |-> lookupDone(QuestionKey(name), first, now).answer,
                        lookups |-> 1]
    /\ UNCHANGED <<now, config, mutex, clusterVars>>

\* a question of type SRV or ANY arrives
ServeDNSFirst(t, name) == ServeFirst(t, name, Get(reg[Self], QuestionKey(name), now))

\* ServeDNS from the return of the second s.registry.Get on
ServeSecond(t, labels, r) ==
    /\ DidRead(Self, r)
    /\ task' = [task EXCEPT ![t] = Resting]
    /\ last' = [op |-> "ServeDNS", n |-> Self, name |-> task[t].name,
                rcode |-> regionDone(task[t], labels[Len(labels) - 3], r).rcode,
                answer |-> regionDone(task[t], labels[Len(labels) - 3], r).answer,
                lookups |-> 2,
                first |-> task[t].services,
                err |-> r.err,
                second |-> r.services,
                same |-> (DOMAIN reg[Self].nodes = task[t].held)]
    /\ UNCHANGED <<now, config, mutex, clusterVars>>

\* the second lookup of ServeDNS, with "any" for the region
ServeDNSSecond(t) ==
    /\ task[t].pc = "second"
    /\ LET labels == SplitDomainName(QuestionKey(task[t].name))
       IN  ServeSecond(t, labels,
                       Get(reg[Self],
                           Join([labels EXCEPT ![Len(labels) - 3] = AnyLabel]), now))

NextServe ==
    \/ \E s \in ServeInputs : Announce(NewAddServiceCommand(s))
    \/ \E s \in ServeInputs : CallRemoveUUID(s.UUID)
    \/ \E name \in ServeQuestions : ServeDNSFirst("t1", name)
    \/ ServeDNSSecond("t1")

SpecServe == Init /\ [][NextServe]_vars

\* C37: the priority-10 set S and the fallback set S' of one DNS response
\* are computed from the same state of the registry, whatever Add and Remove
\* commands are applied beside the request: S is a part of S', and S' has as
\* many services more than S as the answer has priority-20 records.
C37_SameState ==
    (last.op = "ServeDNS" /\ last.lookups = 2 /\ last.err = ErrNone) =>
        /\ last.same
        /\ last.first \sqsubseteq last.second
        /\ BagCardinality(last.second) - BagCardinality(last.first)
               = BagCardinality(OfPriority(last.answer, 20))

\* C38: no service is in one DNS answer twice: for a question with a
\* concrete region label, in any letter case, a service whose region is that
\* label but for the letter case is emitted with priority 10 only and never
\* again with priority 20.  Every service has a host of its own here, so a
\* service is in the answer twice when a target is.
C38_NoTwice ==
    last.op = "ServeDNS" =>
        \A x, y \in DOMAIN last.answer :
            x.Target = y.Target => (x = y /\ last.answer[x] = 1)

\* C39: GetNSEC(key) returns a pair for every key and every content of the
\* index without indexing outside the list, also for a key that sorts after
\* every name of an index that is not empty, and the mutex of the registry
\* is free once it has returned.
C39_ReturnsPair ==
    last.op = "GetNSEC" => (~last.res.panic /\ mutex = "")

====
